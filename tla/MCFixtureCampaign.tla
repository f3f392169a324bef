-------------------------- MODULE MCFixtureCampaign --------------------------
(* Small instances of FixtureCampaign: two requests and a few trees. *)
EXTENDS FixtureCampaign

\* One work root for all, or one for each.
SharedOrApart == {[r \in Runs |-> "work"], [r \in Runs |-> r]}

\* The patch repairs "vulnerable", and leaves "subtle" open to the variant;
\* "seamless" leaks but has no seam to patch.
MCStarts    == Trees \ {"broken"}
MCLeaks     == Trees \cap {"vulnerable", "subtle", "seamless"}
MCVariants  == Trees \cap {"vulnerable", "subtle", "seamless", "halfFixed"}
MCUnpatched == Trees \cap {"vulnerable", "subtle"}
MCPatched   == Trees \cap {"fixed", "halfFixed"}
MCRewrite   == [t \in MCUnpatched |-> IF t = "subtle" THEN "halfFixed" ELSE "fixed"]
=============================================================================
