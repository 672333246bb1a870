------------------------ MODULE MCBridgeController ------------------------
(* Two streams, one of them WHEP, and two documents: one whose streams fit   *)
(* together, and one whose streams claim the same multicast endpoint.        *)
EXTENDS BridgeController

MCIds == {"whep", "srt"}
MCWhepIds == {"whep"}
MCEndpoints == {"e1", "e2"}
MCPasswords == {"entered"}
MCStored == [id \in MCIds |-> IF id = "whep" THEN "stored" ELSE NoPassword]

MCFit == [id \in MCIds |-> [enabled |-> TRUE, endpoint |-> IF id = "whep" THEN "e1" ELSE "e2"]]
MCClash == [id \in MCIds |-> [enabled |-> TRUE, endpoint |-> "e1"]]
MCDocuments == {MCFit, MCClash}
=============================================================================
