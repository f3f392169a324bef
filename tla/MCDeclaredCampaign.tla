-------------------------- MODULE MCDeclaredCampaign --------------------------
(* Small instances of DeclaredCampaign. *)
EXTENDS DeclaredCampaign

Broken  == [decides |-> "StdoutContains", match |-> "BROKEN", control |-> "OPEN_OK"]
NotHeld == [decides |-> "StdoutNotContains", match |-> "HELD", control |-> ""]

MCTokens == {"BROKEN", "HELD", "OPEN_OK"}

Plan(names, required, control, withTwin, contained) ==
  [plans |-> names, oracle |-> [n \in {"primary", "api", "cli"} |->
                                  IF n = "cli" THEN NotHeld ELSE Broken],
   controlOracle |-> Broken, required |-> required, control |-> control,
   twin |-> withTwin, contained |-> contained]

\* One run: two surfaces, and every kind of requirement.
OneRunSpecs ==
  {Plan(<<"primary">>, {level}, FALSE, TRUE, TRUE) : level \in {3, 5, 6, 7}}
  \cup {Plan(<<"api", "cli">>, {2, 4}, FALSE, TRUE, FALSE),
        Plan(<<"primary">>, {4}, TRUE, FALSE, TRUE)}

\* Several runs into one work directory.
ManyRunsSpecs == {Plan(<<"primary">>, {3}, FALSE, TRUE, TRUE)}
=============================================================================
