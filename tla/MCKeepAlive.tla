----------------------------- MODULE MCKeepAlive -----------------------------
(* KeepAlive for TLC; the configuration chooses the times.                 *)
EXTENDS KeepAlive
=============================================================================
