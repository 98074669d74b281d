------------------------- MODULE MCRequestAdmission -------------------------
(* Two API keys behind one user.  A minute has three ticks; a request costs *)
(* two of them at the proxy and, as the user's role changes, two or three   *)
(* at the gateway.  Buckets are stale after a minute and cleaned up at      *)
(* every call; the clocks run for longer than that, and the proxy's may be  *)
(* set back.                                                                *)
EXTENDS RequestAdmission, TLC

Symmetry == Permutations(Keys)
=============================================================================
