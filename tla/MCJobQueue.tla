----------------------------- MODULE MCJobQueue -----------------------------
(* Instance of JobQueue for TLC: one run of two stages, three attempts    *)
(* each, and two sessions that race for them.                              *)
EXTENDS JobQueue
=============================================================================
