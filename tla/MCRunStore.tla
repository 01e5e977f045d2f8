----------------------------- MODULE MCRunStore -----------------------------
(***************************************************************************)
(* Model of RunStore for TLC.  Three keys compete for two entries, so a    *)
(* Save may evict; three Saves let a key be replaced, evicted or used      *)
(* again; the clock passes the TTL, so runs expire at the boundary and     *)
(* beyond it.                                                              *)
(***************************************************************************)
EXTENDS RunStore

CONSTANTS k1, k2, k3

MCKeys == {k1, k2, k3}
=============================================================================
