----------------------------- MODULE MCFreshness -----------------------------
(* Small instances of Freshness for TLC. *)
EXTENDS Freshness, MCPlayback
=============================================================================
