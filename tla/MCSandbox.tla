------------------------------ MODULE MCSandbox -------------------------------
(***************************************************************************)
(* Two calls of any kind, one time stamp (so that two capability probes    *)
(* meet on one name): one command of two calls goes wrong, or two of one   *)
(* call.  No symmetry: CallsReturn is temporal.                            *)
(***************************************************************************)
EXTENDS Sandbox

\* A sealed network, one that a resolved name still leaves and one whose
\* gateway still answers a ping.
SomeOpenings == {{}, {"resolvedTcp"}, {"gatewayPing"}}
=============================================================================
