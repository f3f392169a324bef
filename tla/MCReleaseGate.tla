---------------------------- MODULE MCReleaseGate -----------------------------
(***************************************************************************)
(* A catalogue with one or two classes of each family, one of them without *)
(* a file; two trees; an external planner that answers in two orders.      *)
(***************************************************************************)
EXTENDS ReleaseGate

User  == <<"http-idor", "http-unauth">>
File  == <<"http-path-traversal">>
Parse == <<"cli-crash">>
Once  == <<"lib-call-twice">>

SomeTrees  == {{"users", "parse"}, {"files", "once"}}
WithFile   == {"http-idor", "http-path-traversal", "cli-crash", "lib-call-twice"}
SomeOrders == {<<"lib-call-twice", "cli-crash", "http-surface-map",
                 "http-path-traversal", "http-unauth", "http-idor">>}
SomeCases  == <<[campaign |-> "http-unauth", expect |-> "verified"],
                [campaign |-> "lib-call-twice", expect |-> "verified"]>>
=============================================================================
