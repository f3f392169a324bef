------------------------------- MODULE MCBroker -------------------------------
(***************************************************************************)
(* A lab and a campaign over one target.  /l is a link to /m; the root     *)
(* /l/r has a file f, a link to the file /s/f outside, and a linked        *)
(* directory d.  The processes run in /m/r/w, which has l/r/f, too.        *)
(***************************************************************************)
EXTENDS Broker, TLC

R == <<"", "l", "r">>
M == <<"", "m", "r">>
S == <<"", "s", "f">>

Default ==
  [require_containment |-> TRUE, destructive |-> "Forbid", roots |-> {R},
   tools |-> {"read_file", "list_tree", "search_text", "git_inspect", "collect_file",
              "collect_logs", "http_request"},
   names |-> {"fixture-target"}, endpoints |-> {<<Loopback, 1>>}]

Real == (R :> M) @@ (R \o <<"f">> :> M \o <<"f">>) @@ (R \o <<".", "f">> :> M \o <<"f">>)
          @@ (R \o <<"link">> :> S) @@ (R \o <<"d", "f">> :> S) @@ (S :> S)
          @@ (R \o <<"..", "r", "f">> :> M \o <<"f">>) @@ (<<".">> :> M \o <<"w">>)
          @@ (<<"l", "r", "f">> :> M \o <<"w", "l", "r", "f">>)

Links == {R \o <<"link">>}
Body  == {M \o <<"f">>}     \* the same content as the file

Blank == [capability |-> "read_file", argv |-> {}, target |-> {}, cookie |-> {},
          path |-> {}, cwd |-> {}, network |-> {}]
Get   == [Blank EXCEPT !.capability = "http_request", !.target = {"safe"}]
To(host, port) == [Get EXCEPT !.network = {[host |-> host, port |-> port]}]

AnyIntent ==
  {[Blank EXCEPT !.path = {p}] : p \in DOMAIN Real }
    \cup {[Blank EXCEPT !.capability = c] : c \in {"git_inspect", "collect_logs", "run_tests"}}
    \cup {To(Loopback, 1), To(Loopback, 2), To("0.0.0.0", 1), To("fixture-target", 1), Blank}

Own == {[Blank EXCEPT !.capability = "list_tree", !.path = {R \o <<"f">>}], To(Loopback, 1)}
=============================================================================
