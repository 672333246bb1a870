---------------------------- MODULE MCMediaQueue ----------------------------
(* A small instance of MediaQueue: the two callback threads of a source, a   *)
(* backlog of two units and enough pushes to overflow it several times.      *)
EXTENDS MediaQueue

MCProducers == {"video", "audio"}
MCKinds == {"key", "delta", "audio"}
=============================================================================
