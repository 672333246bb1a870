--------------------------- MODULE MCYtdlpSource ----------------------------
(***************************************************************************)
(* Instances of YtdlpSource for TLC.                                       *)
(***************************************************************************)
EXTENDS YtdlpSource

Video == [live |-> FALSE, duration |-> LastPosition, converts |-> FALSE]
ConvertedVideo == [live |-> FALSE, duration |-> 0, converts |-> TRUE]
Broadcast == [live |-> TRUE, duration |-> 0, converts |-> FALSE]

AllFeeds == {Video, ConvertedVideo, Broadcast}
=============================================================================
