-------------------------- MODULE MCStreamPipeline --------------------------
(* A small instance of StreamPipeline: one run covers the three kinds of     *)
(* source, with a backlog short enough to shed.  A unit "delta" is to gate   *)
(* and sinks what "audio" is, one that opens nothing, and is left out.       *)
EXTENDS StreamPipeline

MCSourceKinds == {"Whep", "Srt", "Youtube"}
MCYoutubeOnly == {"Youtube"}
MCSinks == {"ts"}
MCUnitKinds == {"params", "keyWithParams", "key", "audio"}
MCInBandKinds == {"keyWithParams", "audio"}
=============================================================================
