---------------------- MODULE MCBackgroundCompression ----------------------
(* A small instance of BackgroundCompression for TLC: two sessions and a   *)
(* third to meet a full queue.                                             *)
EXTENDS BackgroundCompression
=============================================================================
