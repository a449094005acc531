---------------------------- MODULE MCCachedSLEs ----------------------------
EXTENDS CachedSLEs

(* Three entries, enough for two stale neighbours and a held one. *)
MCKeys == {"e1", "e2", "e3"}
=============================================================================
