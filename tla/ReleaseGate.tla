----------------------------- MODULE ReleaseGate ------------------------------
(***************************************************************************)
(* The commands that share one work directory: `campaign plan`, `campaign  *)
(* crew` and `campaign gate`, one of which runs at a time; `benchmark poc`,*)
(* which writes EXPERIMENT_INADEQUATE cards; and `campaign run`, whose     *)
(* refusals leave TOOL_GAP and VERIFICATION_FAILURE cards.  The three are  *)
(* processes of their own, and the target tree may be edited at any time.  *)
(* What a class campaign does is module DeclaredCampaign; here it ends     *)
(* verified, held or with an error.                                        *)
(***************************************************************************)
EXTENDS Planner

CONSTANTS
  Trees,         \* contents of the target tree, as sets of what facts_from sees
  ClassFiles,    \* the classes with a file in the class directory
  EngineOrders,  \* the orders in which Fast Downward may put all classes
  Cases,         \* the evaluation pack: a sequence of [campaign, expect]
  RunIds,        \* the classes that `campaign run` is called with
  MaxGates,      \* plan, crew and gate commands
  MaxCards       \* refusals of `campaign run`

\* MaxTurns lets every search end.
ASSUME SearchEnds ==
  \A tree \in Trees, pack \in Packs :
    Search(applicable(facts_from(tree), pack), << >>).queue = << >>

\* The engine never runs a class twice: no action of the domain takes anything
\* back, so a second run would change nothing.
ASSUME GateAssumption ==
  /\ MaxGates \in Nat /\ MaxCards \in Nat /\ RunIds \subseteq STRING
  /\ Cases \in Seq([campaign : STRING, expect : STRING])
  /\ \A order \in EngineOrders : order \in Seq(Ids) /\ IsInjective(order)

VARIABLES
  tree,      \* the target tree
  db,        \* failure cards in the database, by random id
  jsonl,     \* failure cards in failure-cards.jsonl, oldest first
  sas,       \* the file sas_plan
  report,    \* the file gate-report.html and the number of the gate it is of
  gate,      \* the plan, crew or gate command
  eval       \* the evaluation

memory == db \o jsonl
vars   == <<tree, db, jsonl, sas, report, gate, eval>>

-----------------------------------------------------------------------------
NoFile   == <<"no file">>
Results  == {"verified", "held", "error"}
Exits    == {"none", "SUCCESS", "FAILURE"}
NoPlan   == [skipped |-> << >>, promoted |-> << >>, campaigns |-> << >>]

\* plan stands for replan.json and plan.txt, which no command reads; moved, for
\* a card or an edit of the tree since the crew made its own plan.
NoGate == [pc |-> "idle", n |-> 0, kind |-> "gate", pack |-> "http", waived |-> FALSE,
           shown |-> FALSE, crew |-> << >>, moved |-> FALSE, plan |-> NoPlan,
           todo |-> << >>, verified |-> {}, held |-> {}, errors |-> {}, exit |-> "none"]
NoEval == [pc |-> "idle", shown |-> FALSE, hits |-> 0, seen |-> << >>, exit |-> "none"]

TypeOK ==
  /\ tree \in Trees
  /\ \A card \in Range(memory) : card \in Card
  /\ sas = NoFile \/ Range(sas) \subseteq Ids
  /\ report \in [by : 0 .. MaxGates, says : {"nothing", "blocked", "verified", "clean"}]
  /\ gate.pc \in {"idle", "map", "probe", "plan", "run"}
  /\ gate.n \in 0 .. MaxGates /\ gate.pack \in Packs /\ gate.exit \in Exits
  /\ gate.kind \in {"plan", "crew", "gate"} /\ gate.shown \in BOOLEAN
  /\ IsInjective(gate.plan.skipped \o gate.plan.campaigns)
  /\ gate.verified \cup gate.held \cup gate.errors \subseteq Ids
  /\ IsInjective(gate.todo) /\ Range(gate.todo) \subseteq Ids
  /\ eval.pc \in {"idle", "case", "ended"} /\ eval.hits \in 0 .. Len(Cases)
  /\ eval.exit \in Exits /\ Range(eval.seen) \subseteq Results

Init ==
  /\ tree \in Trees /\ db = << >> /\ jsonl = << >> /\ sas = NoFile
  /\ report = [by |-> 0, says |-> "nothing"] /\ gate = NoGate /\ eval = NoEval

-----------------------------------------------------------------------------
(***************************************************************************)
(* plan_campaigns, with load_failure_memory, write_replan and write_pddl.  *)
(***************************************************************************)
\* What Fast Downward may answer to a problem.
EngineAnswers(problem) ==
  {plan \in {Filter(order, problem.goal) : order \in EngineOrders} : Answers(plan, problem)}

\* No engine; an engine that fails, and leaves the file of an earlier run; one
\* that writes the file; one that prints its plan, which an old file hides.
plan_campaigns(facts, pack) ==
  LET Old(answer) == IF sas = NoFile THEN answer ELSE sas
      answers     == EngineAnswers(emit_problem(facts, pack))
      read        == {[raw |-> << >>, sas |-> sas], [raw |-> Old(<< >>), sas |-> sas]}
                       \cup {[raw |-> answer, sas |-> answer] : answer \in answers}
                       \cup {[raw |-> Old(answer), sas |-> sas] : answer \in answers} IN
  {[plan |-> apply_failure_memory(base_plan(r.raw, facts, pack), memory), sas |-> r.sas] :
     r \in read}

\* The classes of a pack by the names of their files.
PackFiles(pack) == CASE pack = "http" -> HttpIds
                     [] pack = "cli"  -> CliIds
                     [] pack = "all"  -> Ids
                     [] pack = "lib"  -> Range(CLI_ONCE_CAMPAIGNS)

class_filesPack(pack, planned) ==
  LET files == Filter(IdsOf(catalog), PackFiles(pack) \cap ClassFiles) IN
  [i \in DOMAIN files |-> files[Len(files) + 1 - i]]

\* An empty plan stands for every class of the pack.
class_files(pack, planned) ==
  Filter(IF planned # << >> THEN planned ELSE Filter(IdsOf(catalog), PackFiles(pack)),
         ClassFiles)

-----------------------------------------------------------------------------
(***************************************************************************)
(* plan, crew and gate.                                                    *)
(***************************************************************************)
others == <<tree, db, jsonl, eval>>

Exit(status) == gate' = [NoGate EXCEPT !.n = gate.n, !.exit = status]

StartCommand ==
  /\ gate.pc = "idle" /\ gate.n < MaxGates
  /\ \E kind \in {"plan", "crew", "gate"}, pack \in Packs, waived \in BOOLEAN :
       /\ kind = "plan" => ~waived
       /\ gate' = [NoGate EXCEPT !.n = gate.n + 1, !.kind = kind, !.pack = pack,
                                 !.waived = waived,
                                 !.pc = IF kind = "gate" THEN "probe" ELSE "map"]
  /\ UNCHANGED <<others, sas, report>>

MapAndPlanHtn ==
  /\ gate.pc = "map" /\ UNCHANGED <<others, report, sas>>
  /\ IF gate.kind = "plan" THEN Exit("SUCCESS")
     ELSE gate' = [gate EXCEPT !.pc = "probe", !.moved = FALSE,
                               !.crew = htn_plan(facts_from(tree), gate.pack)]

\* The crew keeps this plan for its report and goes on to the gate.
CrewPlans(plan) ==
  gate' = [gate EXCEPT !.pc = "probe", !.crew = plan.campaigns, !.moved = FALSE]

\* `campaign plan`, and the mapper and planner of the crew.
MapAndPlan ==
  /\ gate.pc = "map"
  /\ \E p \in plan_campaigns(facts_from(tree), gate.pack) :
       /\ sas' = p.sas
       /\ IF gate.kind = "plan" THEN Exit("SUCCESS") ELSE CrewPlans(p.plan)
  /\ UNCHANGED <<others, report>>

\* run_release_gate: containment must be shown, or the operator waived it.
ProbeContainment ==
  /\ gate.pc = "probe"
  /\ \E live \in BOOLEAN :
       \/ /\ (live \/ gate.waived) /\ UNCHANGED report
          /\ gate' = [gate EXCEPT !.pc = "plan", !.shown = TRUE, !.waived = FALSE]
       \/ /\ ~live /\ ~gate.waived /\ Exit("FAILURE")
          /\ report' = [by |-> gate.n, says |-> "blocked"]
  /\ UNCHANGED <<others, sas>>

\* The surface, the plan and the files of the planned classes.
PlanClasses ==
  /\ gate.pc = "plan"
  /\ \E p \in plan_campaigns(facts_from(tree), gate.pack) :
       /\ sas' = p.sas
       /\ gate' = [gate EXCEPT !.pc = "run", !.plan = p.plan,
                               !.todo = class_files(gate.pack, p.plan.campaigns)]
  /\ UNCHANGED <<others, report>>

\* The tree cannot be read, or there is no class directory.
SurfaceFails ==
  /\ gate.pc \in {"map", "plan"} /\ Exit("FAILURE")
  /\ UNCHANGED <<others, sas, report>>

RunClass ==
  /\ gate.pc = "run" /\ gate.todo # << >>
  /\ LET id == Head(gate.todo) IN
     \/ gate' = [gate EXCEPT !.todo = Tail(@), !.verified = @ \cup {id}]
     \/ gate' = [gate EXCEPT !.todo = Tail(@), !.held = @ \cup {id}]
     \/ gate' = [gate EXCEPT !.todo = Tail(@), !.errors = @ \cup {id}]
  /\ UNCHANGED <<others, sas, report>>

LoadFailsReports ==
  /\ gate.pc = "run" /\ gate.todo # << >> /\ Exit("FAILURE")
  /\ report' = [by |-> gate.n, says |-> IF gate.verified = {} THEN "clean" ELSE "verified"]
  /\ UNCHANGED <<others, sas>>

\* `?` on load_campaign_file: the other classes do not run, no report is written.
LoadFails ==
  /\ gate.pc = "run" /\ gate.todo # << >> /\ Exit("FAILURE")
  /\ UNCHANGED <<others, sas, report>>

VerdictOfHeld(verified, held) == IF held # {} \/ verified = {} THEN "SUCCESS" ELSE "FAILURE"

\* The exit status of run_gate and run_crew: errors do not fail the gate.
Verdict(verified, held) == IF verified = {} THEN "SUCCESS" ELSE "FAILURE"

WriteReport ==
  /\ gate.pc = "run" /\ gate.todo = << >>
  /\ report' = [by |-> gate.n, says |-> IF gate.verified = {} THEN "clean" ELSE "verified"]
  /\ Exit(Verdict(gate.verified, gate.held))
  /\ UNCHANGED <<others, sas>>

GateCrashes ==
  /\ gate.pc # "idle" /\ Exit("none")
  /\ UNCHANGED <<others, sas, report>>

-----------------------------------------------------------------------------
(***************************************************************************)
(* benchmark poc.                                                          *)
(***************************************************************************)
gating == <<tree, db, sas, report>>

\* The crew's own plan is no longer of the current tree and cards.
Moved == gate' = [gate EXCEPT !.moved = (gate.kind = "crew")]

\* The evaluation ends at once when containment is neither shown nor waived, or
\* when the cases or the class directory are missing.
StartEval ==
  /\ eval.pc = "idle"
  /\ \E shown \in BOOLEAN :
       eval' = IF shown THEN [eval EXCEPT !.pc = "case", !.shown = TRUE]
               ELSE [eval EXCEPT !.pc = "ended", !.exit = "FAILURE"]
  /\ UNCHANGED <<gating, jsonl, gate>>

HitRan(expect, observed) == observed # "error"

\* An error is no hit, whatever the case expects.
Hit(expect, observed) == observed = expect /\ observed # "error"

\* One case: the class could not be loaded or run, or ended verified or held.
ScoreCase ==
  /\ eval.pc = "case" /\ Len(eval.seen) < Len(Cases)
  /\ LET case == Cases[Len(eval.seen) + 1] IN
     \E observed \in Results :
       LET hit == Hit(case.expect, observed) IN
       /\ eval' = [eval EXCEPT !.seen = Append(@, observed),
                               !.hits = IF hit THEN @ + 1 ELSE @]
       /\ IF ~hit /\ case.expect = "verified"
          THEN /\ jsonl' = Append(jsonl, [spec_id  |-> case.campaign,
                                          category |-> "EXPERIMENT_INADEQUATE"])
               /\ Moved
          ELSE UNCHANGED <<jsonl, gate>>
  /\ UNCHANGED gating

EndEval ==
  /\ eval.pc = "case" /\ Len(eval.seen) = Len(Cases)
  /\ eval' = [NoEval EXCEPT !.pc = "ended",
                !.exit = IF eval.hits = Len(Cases) THEN "SUCCESS" ELSE "FAILURE"]
  /\ UNCHANGED <<gating, jsonl, gate>>

-----------------------------------------------------------------------------
(***************************************************************************)
(* Everyone else.                                                          *)
(***************************************************************************)
\* fail_closed_no_evidence calls a tool gap everything but an indeterminate
\* oracle: a missing generator, and also a control arm that misbehaves.
CategoryOf(reason) ==
  IF reason = "indeterminate" THEN "VERIFICATION_FAILURE" ELSE "TOOL_GAP"

\* A declared campaign in this work directory is refused and leaves a card.
CampaignRefused ==
  /\ Len(db) < MaxCards /\ Moved
  /\ \E id \in RunIds, i \in 1 .. (Len(db) + 1),
        reason \in {"missing generator", "control arm", "indeterminate"} :
       db' = SubSeq(db, 1, i - 1) \o <<[spec_id |-> id, category |-> CategoryOf(reason)]>>
               \o SubSeq(db, i, Len(db))
  /\ UNCHANGED <<tree, jsonl, sas, report, eval>>

EditTree ==
  /\ tree' \in Trees \ {tree} /\ Moved
  /\ UNCHANGED <<db, jsonl, sas, report, eval>>

Next ==
  \/ StartCommand \/ MapAndPlan \/ ProbeContainment \/ PlanClasses \/ SurfaceFails
  \/ RunClass \/ LoadFails \/ WriteReport \/ GateCrashes
  \/ StartEval \/ ScoreCase \/ EndEval \/ CampaignRefused \/ EditTree

Spec == Init /\ [][Next]_vars

-----------------------------------------------------------------------------
(***************************************************************************)
(* Properties.                                                             *)
(***************************************************************************)
\* What the facts of a tree justify: a class of the pack whose fact is seen.
Justified(pack) ==
  {a.id : a \in {x \in Range(catalog) :
     /\ IF x.id \in HttpIds THEN Http(pack) ELSE Cli(pack)
     /\ x.need = "none" \/ x.need \in tree}}

Gaps       == {card.spec_id : card \in {c \in Range(memory) : c.category = "TOOL_GAP"}}
Inadequate == {card.spec_id :
                 card \in {c \in Range(memory) : c.category = "EXPERIMENT_INADEQUATE"}}

\* plan_campaigns, whichever planner answered and whatever plan an earlier
\* command left in sas_plan, for another pack or another tree: the plan has
\* each class the facts justify exactly once, but for those with a TOOL_GAP
\* card, which replan.json lists; classes with an EXPERIMENT_INADEQUATE card
\* come first, and no other http class comes before the surface map.
PlanFollowsFacts ==
  [][gate.pc = "plan" /\ gate'.pc = "run" =>
       LET plan == gate'.plan.campaigns
           Pos(id) == CHOOSE i \in DOMAIN plan : plan[i] = id IN
       /\ IsInjective(plan) /\ Range(plan) = Justified(gate.pack) \ Gaps
       /\ Range(gate'.plan.skipped) = Justified(gate.pack) \cap Gaps
       /\ \A id \in Range(plan), x \in Range(plan) \ Inadequate :
            /\ id \in Inadequate => Pos(id) < Pos(x)
            /\ id = MapId /\ x \in HttpIds => Pos(id) <= Pos(x)]_vars

\* run_gate and run_crew exit with success only if containment was shown or
\* waived, no class was verified, the report on disk is the one of this very
\* command and says so; and every class of the plan that has a file is held or
\* an error, exactly one of the two, and nothing else ran.
SuccessIsClean ==
  [][gate.pc # "idle" /\ gate.kind # "plan" /\ gate'.exit = "SUCCESS" =>
       /\ gate.shown /\ report' = [by |-> gate.n, says |-> "clean"]
       /\ gate.verified = {} /\ gate.held \cap gate.errors = {}
       /\ LET run == IF gate.plan.campaigns = << >> THEN PackFiles(gate.pack)
                                                    ELSE Range(gate.plan.campaigns) IN
          gate.held \cup gate.errors = run \cap ClassFiles]_vars

\* The report is of the last gate that came to an end: a gate that is running,
\* or that stopped at a class file it could not load, leaves the earlier one,
\* and it never says clean while the last command to write it had failed.
ReportIsLast ==
  [][report' # report => gate.pc # "idle" /\ report'.by = gate.n /\ report'.by > report.by
       /\ (gate'.exit = "SUCCESS" <=> report'.says = "clean")]_vars

\* run_deterministic_crew plans once for its own report and once more inside
\* the gate.  As long as no card was written and the tree was not edited in
\* between, the two plans have the same classes.
CrewPlanIsRun ==
  gate.kind = "crew" /\ gate.pc = "run" /\ ~gate.moved
    => Range(gate.crew) = Range(gate.plan.campaigns)

\* run_poc_eval_pack scores the oracle only: an error is never a hit, success
\* means that every case ended as expected with containment shown or waived,
\* and every known case that was missed, and no other, has left its card.
ScoreIsOracle ==
  [][eval.pc = "case" /\ eval'.pc = "ended" =>
       /\ eval.shown
       /\ eval'.exit = "SUCCESS" <=>
            \A i \in DOMAIN Cases : eval.seen[i] # "error" /\ eval.seen[i] = Cases[i].expect
       /\ {card.spec_id : card \in Range(jsonl)} =
            {Cases[i].campaign : i \in {j \in DOMAIN Cases :
               Cases[j].expect = "verified" /\ eval.seen[j] # "verified"}}]_vars

\* A class that the plan of a gate skipped, because of its TOOL_GAP card, is
\* not run by that gate, unless the cards took every class out of the plan:
\* class_files takes an empty plan for no plan and runs the whole pack.
SkippedIsNotRun ==
  gate.plan.campaigns # << >> =>
    Range(gate.plan.skipped) \cap (gate.verified \cup gate.held \cup gate.errors) = {}
=============================================================================
