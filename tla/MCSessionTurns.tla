--------------------------- MODULE MCSessionTurns ---------------------------
(* The turns of a session: three in cache mode, where one may replace the   *)
(* record that another has read and a history may continue two lineages,    *)
(* two in token mode, whose cache, stable set and job multiply the states.  *)
(* Among the histories one goes on from another with the assistant's answer *)
(* in between, and one drops that answer.  With lineage cap 0 all requests  *)
(* share the overflow tracker, with cap 2 a third history does.  One result *)
(* fits in the cache, so two of them evict each other; t1 may shrink, t2    *)
(* may come out longer, either may be left as it is.  Setting "off" of cold *)
(* recompaction is "idle" when no cache ever lapses.                        *)
EXTENDS SessionTurns, TLC

CONSTANTS t1, t2, u

MCHistories == {<<t1>>, <<t1, u, t2>>, <<t1, t2>>}
MCMaxTurns == [token |-> 2, cache |-> 3]
MCOutcomes == (t1 :> {"raw", "small"}) @@ (t2 :> {"raw", "big"})
Symmetry == Permutations(Requests)
=============================================================================
