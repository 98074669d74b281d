------------------------- MODULE MCCompressionStore -------------------------
(***************************************************************************)
(* Small instances of CompressionStore for TLC.  The heap orders keys, so  *)
(* they are numbers; liveness is among the properties, so no symmetry.  A  *)
(* fourth store is what it takes to outgrow a heap that is never rebuilt;  *)
(* with SQLiteBackend, which purges rows at any set, three are explored.   *)
(***************************************************************************)
EXTENDS CompressionStore

MCMaxStores == [sql \in BOOLEAN |-> IF sql THEN 3 ELSE 4]
=============================================================================
