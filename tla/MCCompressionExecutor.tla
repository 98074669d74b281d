------------------------ MODULE MCCompressionExecutor ------------------------
(* The executor with a pool of two threads and three calls.                 *)
EXTENDS CompressionExecutor
=============================================================================
