---------------------- MODULE MCCompressionStoreRestart ----------------------
(***************************************************************************)
(* Model checking of CompressionStoreRestart.                              *)
(***************************************************************************)
EXTENDS CompressionStoreRestart, TLC

MCMaxStores == [sql \in BOOLEAN |-> 3]
ThreadSymmetry == Permutations(Threads)
=============================================================================
