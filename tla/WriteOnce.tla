------------------------------ MODULE WriteOnce -------------------------------
(***************************************************************************)
(* What a content-addressed store promises: under a digest there is either *)
(* nothing or the content with that digest, and once there it stays.       *)
(***************************************************************************)
VARIABLE contents    \* the readable contents, by digest

Init == contents = [d \in {} |-> d]

Put(d) == contents' = [x \in DOMAIN contents \cup {d} |-> IF x = d THEN d ELSE contents[x]]

Spec == Init /\ [][\E d \in DOMAIN contents' : Put(d)]_contents
=============================================================================
