----------------------------- MODULE MCMediaMtx -----------------------------
(* A small instance of MediaMtx: two servers, one on the default ports and   *)
(* one on others, one path that needs authentication and is fed over SRT and *)
(* one that is open, and edits that turn one server into the other.          *)
EXTENDS MediaMtx

MCHosts == {"h1", "h2"}
MCNames == {"n1"}
MCUsers == {"u"}
MCPasswords == {"p"}
MCStoredPassword == [k \in MCNames \X MCUsers |-> NoPassword]
MCPaths == {"srt", "whep"}
MCSrtPaths == {"srt"}
MCProtectedPaths == {"srt"}
MCListings == {MCPaths}
MCPorts == {"default", "other"}
MCListenPort == [h \in MCHosts |-> IF h = "h1" THEN "default" ELSE "other"]

OnDisk(h, user) == [name |-> "n1", host |-> h, user |-> user, auto |-> TRUE,
                    srt |-> "default", web |-> "default"]
MCServerLists == {<<OnDisk("h1", "u")>>, <<OnDisk("h1", "u"), OnDisk("h2", NoUser)>>}
MCNewServer == OnDisk("h2", NoUser)
MCEntries == {[name |-> "n1", host |-> NoHost, user |-> "u", auto |-> FALSE, web |-> "default"]}
=============================================================================
