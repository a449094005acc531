---------------------------- MODULE MCDirectory ----------------------------
EXTENDS Directory

(* Three indexes spread over up to three pages. *)
MCKeys == {"k1", "k2", "k3"}
=============================================================================
