------------------------------- MODULE MCDaemon -------------------------------
(***************************************************************************)
(* Instances of Daemon for TLC: two requests and one frame of the worker,  *)
(* or one request and two frames.  No symmetry: RequestsEnd is temporal.   *)
(***************************************************************************)
EXTENDS Daemon
=============================================================================
