----------------------------- MODULE ClientPool -----------------------------
(***************************************************************************)
(* What a WHEP source promises of its clients, without requests, replies   *)
(* or a queue: it uses one client at a time, each one that it takes was    *)
(* free, one that it gives up is deleted, once, and is free again, and the *)
(* source is not deleted before it has stopped and all of them are.        *)
(***************************************************************************)
CONSTANTS Clients,    \* the clients there may be at a time
          None        \* no client

VARIABLES phase,      \* of the source: "new", "started", "stopped" or "deleted"
          own,        \* the client in use, or None
          doomed      \* the clients given up and not yet deleted

vars == <<phase, own, doomed>>

Init == phase = "new" /\ own = None /\ doomed = {}

\* The source starts, or starts again, with a free client; any it had is given up.
Use(c) ==
    /\ phase \in {"new", "started"}
    /\ c \notin doomed \cup {own}
    /\ phase' = "started"
    /\ own' = c
    /\ doomed' = doomed \cup ({own} \ {None})

\* The source stops for good.
Release ==
    /\ phase = "started"
    /\ phase' = "stopped"
    /\ own' = None
    /\ doomed' = doomed \cup {own}

Delete(c) ==
    /\ c \in doomed
    /\ doomed' = doomed \ {c}
    /\ UNCHANGED <<phase, own>>

\* The source is deleted, after its clients.
End ==
    /\ phase = "stopped" /\ doomed = {}
    /\ phase' = "deleted"
    /\ UNCHANGED <<own, doomed>>

Next == \/ \E c \in Clients : Use(c) \/ Delete(c)
        \/ Release \/ End

Spec == Init /\ [][Next]_vars
=============================================================================
