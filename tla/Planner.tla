------------------------------- MODULE Planner --------------------------------
(***************************************************************************)
(* The class planner (htn.rs, pddl.rs): the facts of a target tree choose  *)
(* campaign classes from a catalogue, a STRIPS search or an external       *)
(* planner orders them, and the failure cards of a work directory take     *)
(* classes out of the plan or move them to its front.                      *)
(***************************************************************************)
EXTENDS Naturals, Sequences, Functions

CONSTANTS HTTP_USER_CAMPAIGNS, HTTP_FILE_CAMPAIGNS,   \* the catalogue: sequences
          CLI_PARSE_CAMPAIGNS, CLI_ONCE_CAMPAIGNS,    \* of class ids
          MaxTurns                                    \* turns of the search loop

MapId   == "http-surface-map"
HttpIds == {MapId} \cup Range(HTTP_USER_CAMPAIGNS) \cup Range(HTTP_FILE_CAMPAIGNS)
CliIds  == Range(CLI_PARSE_CAMPAIGNS) \cup Range(CLI_ONCE_CAMPAIGNS)
Ids     == HttpIds \cup CliIds

\* The ids of the catalogue are distinct, and none is the fact of emit_domain
\* that the surface was mapped (pddl_pred prefixes them).
ASSUME CatalogAssumption ==
  /\ \A s \in {HTTP_USER_CAMPAIGNS, HTTP_FILE_CAMPAIGNS, CLI_PARSE_CAMPAIGNS,
               CLI_ONCE_CAMPAIGNS} : s \in Seq(STRING)
  /\ IsInjective(<<MapId>> \o HTTP_USER_CAMPAIGNS \o HTTP_FILE_CAMPAIGNS
                   \o CLI_PARSE_CAMPAIGNS \o CLI_ONCE_CAMPAIGNS)
  /\ "mapped" \notin Ids /\ MaxTurns \in Nat

\* The elements of s that are in S, in their order.
Filter(s, S) ==
  LET kept[n \in 0 .. Len(s)] ==
        IF n = 0 THEN << >>
        ELSE IF s[n] \in S THEN Append(kept[n - 1], s[n]) ELSE kept[n - 1] IN
  kept[Len(s)]

\* The last pack is any other word: class_files takes it for a file name prefix.
Packs == {"http", "cli", "all", "lib"}

Http(pack) == pack \in {"http", "all"}
Cli(pack)  == pack \in {"cli", "all"}

\* The paths that the surface map proposes for a tree: always one for health.
suggest_bind(tree) ==
  {"health_path"} \cup (IF "users" \in tree THEN {"idor_path", "unauth_path"} ELSE {})
                  \cup (IF "files" \in tree THEN {"files_path"} ELSE {})

facts_from(tree) ==
  [http_paths |-> suggest_bind(tree) # {},
   users |-> "users" \in tree, files |-> "files" \in tree, server |-> "server" \in tree,
   parse |-> "parse" \in tree, once |-> "once" \in tree]

NeedsMap(facts, pack) == Http(pack) /\ (facts.http_paths \/ facts.server)

-----------------------------------------------------------------------------
(***************************************************************************)
(* Planning from the facts.                                                *)
(***************************************************************************)
Class(ids, mapped, need) ==
  [i \in DOMAIN ids |-> [id |-> ids[i], needs_mapped |-> mapped, need |-> need]]

catalog ==
  Class(<<MapId>>, FALSE, "none") \o Class(HTTP_USER_CAMPAIGNS, TRUE, "users")
    \o Class(HTTP_FILE_CAMPAIGNS, TRUE, "files")
    \o Class(CLI_PARSE_CAMPAIGNS, FALSE, "parse")
    \o Class(CLI_ONCE_CAMPAIGNS, FALSE, "once")

applicable(facts, pack) ==
  Filter(catalog, {a \in Range(catalog) :
    /\ a.id \in HttpIds => Http(pack)
    /\ a.need \in {"parse", "once"} => Cli(pack)
    /\ IF a.id = MapId THEN NeedsMap(facts, pack) ELSE facts[a.need]})

IdsOf(actions) == [i \in DOMAIN actions |-> actions[i].id]

When(condition, ids) == IF condition THEN ids ELSE << >>

htn_plan(facts, pack) ==
  When(NeedsMap(facts, pack), <<MapId>>)
    \o When(Http(pack) /\ facts.users, HTTP_USER_CAMPAIGNS)
    \o When(Http(pack) /\ facts.files, HTTP_FILE_CAMPAIGNS)
    \o When(Cli(pack) /\ facts.parse, CLI_PARSE_CAMPAIGNS)
    \o When(Cli(pack) /\ facts.once, CLI_ONCE_CAMPAIGNS)

\* Breadth first: a node is whether the surface is mapped and the path to it,
\* whose classes are those that ran.
Expand(node, actions) ==
  LET open == Filter(actions, {a \in Range(actions) :
                /\ a.id \notin Range(node.path)
                /\ a.needs_mapped => node.mapped}) IN
  [i \in DOMAIN open |-> [mapped |-> node.mapped \/ open[i].id = MapId,
                          path   |-> Append(node.path, open[i].id)]]

\* One turn of the loop: a node was seen, or is the goal, or is expanded.
Turn(search, actions) ==
  LET node == Head(search.queue)
      key  == <<node.mapped, Range(node.path)>> IN
  IF key \in search.seen
  THEN [search EXCEPT !.queue = Tail(@)]
  ELSE IF Range(IdsOf(actions)) \subseteq Range(node.path)
  THEN [search EXCEPT !.queue = << >>, !.plan = node.path]
  ELSE [search EXCEPT !.queue = Tail(@) \o Expand(node, actions), !.seen = @ \cup {key}]

\* The loop ends when the queue is empty; no path found leaves the fallback.
Search(actions, fallback) ==
  LET start == [mapped |-> MapId \notin Range(IdsOf(actions)), path |-> << >>]
      after[n \in 0 .. MaxTurns] ==
        IF n = 0 THEN [queue |-> <<start>>, seen |-> {}, plan |-> fallback]
        ELSE LET search == after[n - 1] IN
             IF search.queue = << >> THEN search ELSE Turn(search, actions) IN
  after[MaxTurns]

strips_plan(facts, pack) == Search(applicable(facts, pack), htn_plan(facts, pack)).plan

-----------------------------------------------------------------------------
(***************************************************************************)
(* Planning with Fast Downward, an external program.                       *)
(***************************************************************************)
emit_problem(facts, pack) ==
  [init |-> {n \in {"users", "files", "parse", "once"} : facts[n]}
              \cup (IF NeedsMap(facts, pack) THEN {} ELSE {"mapped"}),
   goal |-> Range(IdsOf(applicable(facts, pack)))]

\* The action of emit_domain for a class: what it requires and what it adds.
emit_domain(id) ==
  LET a == CHOOSE x \in Range(catalog) : x.id = id IN
  [pre    |-> (IF a.needs_mapped THEN {"mapped"} ELSE {}) \cup ({a.need} \ {"none"}),
   effect |-> {id} \cup (IF id = MapId THEN {"mapped"} ELSE {})]

\* A plan is an answer to a problem when every action can run in its place and
\* the goal holds at the end.
Answers(plan, problem) ==
  LET Before(i) == problem.init \cup
                     UNION {emit_domain(plan[j]).effect : j \in 1 .. (i - 1)} IN
  /\ \A i \in DOMAIN plan : emit_domain(plan[i]).pre \subseteq Before(i)
  /\ problem.goal \subseteq Before(Len(plan) + 1)

\* Lines that name no allowed class are dropped; no line left is no plan.
parse_sas_plan(raw, allowed) == Filter(raw, allowed)

\* raw is the file sas_plan of the work directory, whoever wrote it, or else
\* what the engine printed.  An incomplete plan is no plan.
Complete(plan, allowed) == plan # << >> /\ allowed \subseteq Range(plan)

base_planAny(raw, facts, pack) ==
  LET allowed == Range(IdsOf(applicable(facts, pack)))
      plan    == parse_sas_plan(raw, allowed) IN
  IF plan # << >> THEN plan ELSE strips_plan(facts, pack)

base_plan(raw, facts, pack) ==
  LET allowed == Range(IdsOf(applicable(facts, pack)))
      plan    == parse_sas_plan(raw, allowed) IN
  IF Complete(plan, allowed) THEN plan ELSE strips_plan(facts, pack)

-----------------------------------------------------------------------------
(***************************************************************************)
(* Failure memory.                                                         *)
(***************************************************************************)
Categories == {"TOOL_GAP", "EXPERIMENT_INADEQUATE", "VERIFICATION_FAILURE"}
Card       == [spec_id : STRING, category : Categories]

\* The ids that the cards of a category name, in memory order, each once.
Named(memory, category) ==
  LET first == {i \in DOMAIN memory :
                  /\ memory[i].category = category
                  /\ \A j \in 1 .. (i - 1) : memory[j].category = category
                                              => memory[j].spec_id # memory[i].spec_id}
      index == Filter([i \in DOMAIN memory |-> i], first) IN
  [k \in DOMAIN index |-> memory[index[k]].spec_id]

apply_failure_memoryCopy(plan, memory) ==
  LET skipped   == Filter(Named(memory, "TOOL_GAP"), Range(plan))
      remaining == Filter(plan, Range(plan) \ Range(skipped))
      promoted  == Filter(Named(memory, "EXPERIMENT_INADEQUATE"), Range(remaining)) IN
  [skipped |-> skipped, promoted |-> promoted, campaigns |-> promoted \o remaining]

apply_failure_memory(plan, memory) ==
  LET skipped   == Filter(Named(memory, "TOOL_GAP"), Range(plan))
      remaining == Filter(plan, Range(plan) \ Range(skipped))
      promoted  == Filter(Named(memory, "EXPERIMENT_INADEQUATE"), Range(remaining)) IN
  [skipped |-> skipped, promoted |-> promoted,
   campaigns |-> promoted \o Filter(remaining, Range(remaining) \ Range(promoted))]
=============================================================================
