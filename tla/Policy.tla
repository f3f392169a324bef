-------------------------------- MODULE Policy --------------------------------
(***************************************************************************)
(* The policy decision point (aros-policy): what a manifest authorises.    *)
(* A path is the sequence of its parts between slashes, so that of an      *)
(* absolute one begins with "", and the root directory is <<"">>; an       *)
(* option is a set of at most one element.                                 *)
(***************************************************************************)
EXTENDS Naturals, Sequences, Functions

CONSTANTS
  ForbiddenNames,   \* parts with one of the needles for host resources in them
  Addresses,        \* hosts that parse as an address; all others are names
  NoHost            \* the addresses that are unspecified, broadcast or multicast

NetworkCapabilities == {"http_request", "browser_request"}
FileCapabilities    == {"read_file", "collect_file", "search_text"}
Destructive         == {"execute_allowlisted_binary", "fuzz_adapter"}
Loopback            == "127.0.0.1"

-----------------------------------------------------------------------------
Absolute == ""
Ignored  == {Absolute, "."}
Parent   == ".."

\* Empty parts and "." are left out; a path with ".." in it has no normal form.
normalize_path(path) ==
  LET out[n \in 0 .. Len(path)] ==
        IF n = 0 THEN << >>
        ELSE IF path[n] \in Ignored THEN out[n - 1] ELSE Append(out[n - 1], path[n]) IN
  IF Parent \in Range(path) THEN {} ELSE {out[Len(path)]}

is_forbidden_host_resource(path) == Range(path) \cap ForbiddenNames # {}

starts_with(p, r) == Len(r) <= Len(p) /\ r = SubSeq(p, 1, Len(r))

\* One root at least is the path itself or one of its ancestors.
path_allowed(path, roots) ==
  /\ ~is_forbidden_host_resource(path)
  /\ \E p \in normalize_path(path) :
       \E root \in roots : \E r \in normalize_path(root) : starts_with(p, r)

network_allowed(host, port, endpoints) ==
  host \in Addresses \ NoHost /\ <<host, port>> \in endpoints

\* A service name needs an authorised loopback endpoint on the same port.
DestinationAllowed(m, net) ==
  \/ net.host \in Addresses /\ network_allowed(net.host, net.port, m.endpoints)
  \/ /\ net.host \notin Addresses /\ net.host \in m.names
     /\ network_allowed(Loopback, net.port, m.endpoints)

\* The reasons to deny; argv and the http parts are "safe" or "unsafe".
Denied(m, demonstrated, intent) ==
  \/ m.require_containment /\ ~demonstrated
  \/ intent.capability \notin m.tools
  \/ /\ intent.capability \in NetworkCapabilities
     /\ intent.argv # {} \/ intent.target # {"safe"} \/ "unsafe" \in intent.cookie
  \/ intent.capability \notin NetworkCapabilities /\ "unsafe" \in intent.argv
  \/ \E p \in intent.path \cup intent.cwd : ~path_allowed(p, m.roots)
  \/ \E net \in intent.network : ~DestinationAllowed(m, net)
  \/ intent.capability \in NetworkCapabilities /\ intent.network = {}
  \/ intent.capability \in FileCapabilities /\ intent.path = {}

evaluate(m, demonstrated, intent) ==
  IF Denied(m, demonstrated, intent) THEN "Deny"
  ELSE IF m.destructive = "RequireHuman" /\ intent.capability \in Destructive
       THEN "RequiresHuman" ELSE "Allow"

v0_1_effective_allow(decision, override) ==
  decision = "Allow" \/ (decision = "RequiresHuman" /\ override)
=============================================================================
