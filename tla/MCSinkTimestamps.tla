-------------------------- MODULE MCSinkTimestamps --------------------------
(* A small instance of SinkTimestamps: clocks that wrap after eight ticks, on *)
(* a timeline that takes the video clock through two wraps and the audio      *)
(* clock through one.                                                         *)
EXTENDS SinkTimestamps

MCOpenSets == {{"ts"}, {"rtp", "ndi"}, {"rtsp"}}
=============================================================================
