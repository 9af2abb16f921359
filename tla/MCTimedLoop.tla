----------------------------- MODULE MCTimedLoop -----------------------------
(* TimedLoop for TLC; the configurations choose the poll interval.         *)
EXTENDS TimedLoop
=============================================================================
