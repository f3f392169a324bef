------------------------------- MODULE Evidence -------------------------------
(***************************************************************************)
(* The evidence ladder: how an arm's output is judged, which level E0..E7  *)
(* the measurements of a declared campaign earn, when the levels that a    *)
(* campaign requires are met, and which measurements a certificate may     *)
(* state beside a level.  Pure operators; DeclaredCampaign drives them.    *)
(***************************************************************************)
EXTENDS Naturals, Sequences, FiniteSets

Attack        == "AttackSucceeded"
Holds         == "InvariantHolds"
Indeterminate == "Indeterminate"
Judgements    == {Attack, Holds, Indeterminate}

\* EvidenceLevel derives Ord, so E0 .. E7 are compared as numbers.
Levels == 0 .. 7

-----------------------------------------------------------------------------
(***************************************************************************)
(* evaluate_oracle.  `text' is the set of tokens an arm printed.  An       *)
(* oracle's `control' is the token its negative control names ("" when it  *)
(* names none), `match' its needle ("" when absent).                       *)
(***************************************************************************)
EvaluateOracle(text, oracle) ==
  LET seen == oracle.match \in text
  IN  IF \/ oracle.control # "" /\ oracle.control \notin text
         \/ oracle.match = ""
         \/ oracle.decides \notin {"StdoutContains", "StdoutNotContains"}
      THEN Indeterminate
      ELSE IF seen <=> (oracle.decides = "StdoutContains") THEN Attack ELSE Holds

\* The campaign's judgement over its surfaces; an indeterminate surface has
\* already ended the run, so `judged' holds only the other two.
Overall(judged) ==
  IF \E i \in DOMAIN judged : judged[i] = Attack THEN Attack ELSE Holds

\* A measurement record: what the executed arms established.
Measurements == [independent : BOOLEAN, twinHolds : BOOLEAN,
                 e7 : BOOLEAN, shrink : BOOLEAN]

\* raw_level: E5 (a shrink proof) is tried before E4 (a matching replica).
RawLevel(judgement, m) ==
  CASE judgement = Holds         -> 2
    [] judgement = Indeterminate -> 0
    [] OTHER -> IF m.e7 THEN 7
                ELSE IF m.twinHolds /\ m.independent THEN 6
                ELSE IF m.shrink THEN 5
                ELSE IF m.independent THEN 4
                ELSE 3

\* evidence_satisfies_required: E4 and E6 ask for the measurement itself, E5
\* and E7 for exactly that level, the others for at least that level.
SatisfiesRequired(required, achieved, m) ==
  \A r \in required :
    CASE r = 4 -> m.independent
      [] r = 6 -> m.twinHolds /\ m.independent
      [] r = 7 -> achieved = 7
      [] r = 5 -> achieved = 5
      [] OTHER -> achieved >= r

\* The campaign state, given the level and whether the requirement is met.
StateFor(judgement, achieved, met) ==
  IF ~met THEN "InsufficientEvidence"
  ELSE IF achieved = 7 THEN "RegressionProtected"
  ELSE IF judgement = Attack THEN "Verified"
  ELSE "Refuted"

\* The states in which the campaign's finding is marked verified.
VerifiedStates == {"Verified", "RegressionProtected"}

\* claims_match_level: what a certificate may claim beside its level.
ClaimsMatchLevel(achieved, m, regression) ==
  CASE achieved = 7 -> m.e7 /\ m.twinHolds /\ m.independent /\ regression
    [] achieved = 6 -> m.twinHolds /\ m.independent /\ ~m.e7
    [] achieved = 4 -> m.independent /\ ~m.e7 /\ ~m.twinHolds
    [] OTHER        -> ~m.e7 /\ ~m.twinHolds

\* The conclusion node that record_declared_graph links to the observation.
ConclusionState(judgement, verified) ==
  CASE judgement = Attack /\ verified  -> "Verified"
    [] judgement = Attack /\ ~verified -> "Claimed"
    [] judgement = Holds               -> "Refuted"
    [] OTHER                           -> "Stale"
=============================================================================
