--------------------------- MODULE MCStreamPreview ---------------------------
(* The viewer with a ring of three blocks: one more than it takes for a    *)
(* block to be neither the first nor the last.                             *)
EXTENDS StreamPreview
=============================================================================
