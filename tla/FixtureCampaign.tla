--------------------------- MODULE FixtureCampaign ---------------------------
(***************************************************************************)
(* The fixture campaigns arosd runs for POST /campaigns/fixture: one engine *)
(* thread per request attacks a running target, has an independent verifier *)
(* process reproduce the finding on a private copy of the tree, minimises   *)
(* it, patches a twin, attacks the twin and stores the verdict.             *)
(*                                                                         *)
(* Requests name their work root, so several runs may share one: the store  *)
(* keys its rows by campaign, but the twin directory has a fixed name.  The *)
(* operator may edit the target at any time.  Digests are ideal, and a tree *)
(* is what its server does: whether it starts, leaks and still works.  A    *)
(* server behaves as the code it loaded when it started; edits of the data  *)
(* files that it reads later are left out.                                  *)
(***************************************************************************)
EXTENDS Naturals, Sequences, FiniteSets

CONSTANTS
  Runs,        \* the requests, each a campaign of its own
  WorkRoots,   \* the ways in which the requests may name their work roots
  MaxEdits,    \* how often the operator edits the target
  MaxInputs,   \* how many requests and edits there are in all
  Trees,       \* contents of the target directory
  Starts,      \* trees whose server becomes ready
  Leaks,       \* trees whose answer to the attack violates the invariant
  Variants,    \* trees that leak to the variant of the attack
  Works,       \* trees that keep the fixture's functional invariant
  Unpatched,   \* trees with the seam the patch rewrites
  Patched,     \* trees in which twin_is_patched finds the rewritten seam
  Rewrite      \* what apply_fixture_patch makes of an unpatched tree

Roots == UNION {{names[r] : r \in Runs} : names \in WorkRoots}

ASSUME RunsAssumption  == \A names \in WorkRoots : DOMAIN names = Runs
ASSUME EditsAssumption == MaxEdits \in Nat /\ MaxInputs \in Nat
ASSUME TreesAssumption ==
  /\ "none" \notin Trees
  /\ \A s \in {Starts, Leaks, Variants, Works, Unpatched, Patched} : s \subseteq Trees
  /\ Unpatched \cap Patched = {} /\ Rewrite \in [Unpatched -> Trees]

VARIABLES
  rootOf,      \* the work root each request names
  target,      \* fixture_root
  edits,       \* how often it was edited
  twinDir,     \* work_root/twin of each work root
  run,         \* each engine run, with what it holds in memory
  row,         \* the store: campaign rows, "none" until written
  stored,      \* the store: ledgers
  graph        \* the store: the campaigns whose graph is written

store == <<row, stored, graph>>
vars  == <<rootOf, target, edits, twinDir, run, row, stored, graph>>

-----------------------------------------------------------------------------
MaybeTree == Trees \cup {"none"}

\* FixtureKind: Authz and Path are attacks, Deceptive is the negative control.
KindsOfRun == {"attack", "control"}

\* The campaign states an engine run can end in, and "Running" for the others.
States == {"Running", "Refuted", "InsufficientEvidence", "NonReproducible",
           "RegressionProtected"}

\* The ledger entries that carry a verdict; progress entries are left out.
Entries == {"CampaignStarted", "FindingFalsified", "FindingCandidateCreated",
            "FindingVerified", "PatchCandidateCreated", "ReattackCompleted",
            "CampaignCompleted"}

\* What the verifier process reports, or "none" while there is no report.
Verdicts == {"none", "accepted", "unobserved", "mismatch", "unavailable"}

Verifying == {"before", "copy", "replay", "after"}
Engine    == {"open", "research", "verdict", "authority", "minimize", "twin", "patch",
              "check", "reattack", "regression", "row", "ledger", "graph", "final"}
Ended     == {"ok", "err", "panicked", "crashed"}

RunType == [pc : {"idle"} \cup Verifying \cup Engine \cup Ended, kind : KindsOfRun,
            state : States, level : 0 .. 7, verified : BOOLEAN, verdict : Verdicts,
            serving : MaybeTree, original : MaybeTree, copy : MaybeTree,
            patch : MaybeTree, twin : MaybeTree, log : Seq(Entries)]

TypeOK ==
  /\ rootOf \in WorkRoots
  /\ target \in Trees /\ edits \in 0 .. MaxEdits
  /\ twinDir \in [Roots -> MaybeTree]
  /\ run \in [Runs -> RunType]
  /\ row \in [Runs -> States \cup {"none"}]
  /\ stored \in [Runs -> Seq(Entries)] /\ graph \subseteq Runs

Idle == [pc |-> "idle", kind |-> "attack", state |-> "Running", level |-> 0,
         verified |-> FALSE, verdict |-> "none", serving |-> "none",
         original |-> "none", copy |-> "none", patch |-> "none", twin |-> "none",
         log |-> << >>]

Init ==
  /\ rootOf \in WorkRoots
  /\ target \in Trees /\ edits = 0
  /\ twinDir = [w \in Roots |-> "none"]
  /\ run = [r \in Runs |-> Idle]
  /\ row = [r \in Runs |-> "none"] /\ stored = [r \in Runs |-> << >>] /\ graph = {}

\* Requests made and edits done so far.
Inputs == edits + Cardinality({r \in Runs : run[r].pc # "idle"})

At(r, pc) == run[r].pc = pc
Go(r, pc) == run' = [run EXCEPT ![r].pc = pc]

\* A run that ends takes what it held in memory with it.
Lost(pc) == [Idle EXCEPT !.pc = pc]
Fail(r) == run' = [run EXCEPT ![r] = Lost("err")]

-----------------------------------------------------------------------------
(***************************************************************************)
(* The engine up to a candidate finding.                                   *)
(***************************************************************************)
\* The request starts the target, in a container or on the host under a
\* waiver, before the engine looks at the tree.
Begin(r, kind) ==
  /\ At(r, "idle") /\ Inputs < MaxInputs
  /\ IF target \in Starts
     THEN run' = [run EXCEPT ![r].kind = kind, ![r].serving = target, ![r].pc = "open"]
     ELSE Fail(r)
  /\ UNCHANGED <<rootOf, target, edits, twinDir, store>>

\* Containment, the stores, then the snapshot every later digest is held to.
Open(r) ==
  /\ At(r, "open")
  /\ run' = [run EXCEPT ![r].original = target, ![r].log = <<"CampaignStarted">>,
                        ![r].pc = "research"]
  /\ UNCHANGED <<rootOf, target, edits, twinDir, store>>

\* Mapping, hypothesis and experiment.  The observation comes from the running
\* target; a leak that the negative control shows runs into `unreachable!'.
Research(r) ==
  /\ At(r, "research")
  /\ run' = CASE run[r].serving \notin Leaks ->
                    [run EXCEPT ![r].state = "Refuted",
                                ![r].log = Append(@, "FindingFalsified"), ![r].pc = "row"]
              [] run[r].serving \in Leaks /\ run[r].kind = "control" ->
                    [run EXCEPT ![r] = Lost("panicked")]
              [] OTHER ->
                    [run EXCEPT ![r].level = 3, ![r].pc = "before",
                                ![r].log = Append(@, "FindingCandidateCreated")]
  /\ UNCHANGED <<rootOf, target, edits, twinDir, store>>

-----------------------------------------------------------------------------
(***************************************************************************)
(* reproduce_and_adjudicate, in the verifier's process: the tree has the   *)
(* authorised digest before, as copied, and after the replay of the copy.  *)
(***************************************************************************)
Report(r, verdict) ==
  run' = [run EXCEPT ![r].verdict = verdict, ![r].pc = "verdict"]

VerifierBefore(r) ==
  /\ At(r, "before")
  /\ IF target = run[r].original THEN Go(r, "copy") ELSE Report(r, "mismatch")
  /\ UNCHANGED <<rootOf, target, edits, twinDir, store>>

\* Mutant: the copy is replayed without looking at its digest.
VerifierCopyTrusted(r) ==
  /\ At(r, "copy")
  /\ run' = [run EXCEPT ![r].copy = target, ![r].pc = "replay"]
  /\ UNCHANGED <<rootOf, target, edits, twinDir, store>>

VerifierCopy(r) ==
  /\ At(r, "copy")
  /\ IF target = run[r].original
     THEN run' = [run EXCEPT ![r].copy = target, ![r].pc = "replay"]
     ELSE Report(r, "mismatch")
  /\ UNCHANGED <<rootOf, target, edits, twinDir, store>>

\* run_actual_fixture: the runtime may be missing or the copy not start; its
\* result is held back until the tree has been looked at again.
VerifierReplay(r) ==
  /\ At(r, "replay")
  /\ \E ran \in BOOLEAN :
       run' = [run EXCEPT
         ![r].verdict = IF ~ran \/ run[r].copy \notin Starts THEN "unavailable"
                        ELSE IF run[r].copy \in Leaks THEN "accepted" ELSE "unobserved",
         ![r].pc = "after"]
  /\ UNCHANGED <<rootOf, target, edits, twinDir, store>>

VerifierAfter(r) ==
  /\ At(r, "after")
  /\ Report(r, IF target = run[r].original THEN run[r].verdict ELSE "mismatch")
  /\ UNCHANGED <<rootOf, target, edits, twinDir, store>>

\* Mutant: the deadline is only looked at before the verifier has begun.
DeadlineOnce(r) ==
  /\ At(r, "before")
  /\ run' = [run EXCEPT ![r].state = "InsufficientEvidence", ![r].verdict = "none",
                        ![r].pc = "row"]
  /\ UNCHANGED <<rootOf, target, edits, twinDir, store>>

\* verify_in_subprocess fails: no executable, 15 s are over, or a bad exit.
Deadline(r) ==
  /\ run[r].pc \in Verifying
  /\ run' = [run EXCEPT ![r].state = "InsufficientEvidence", ![r].verdict = "none",
                        ![r].pc = "row"]
  /\ UNCHANGED <<rootOf, target, edits, twinDir, store>>

-----------------------------------------------------------------------------
(***************************************************************************)
(* The engine after the verifier's report.                                 *)
(***************************************************************************)
\* Mutant: the verifier's word is stored as the campaign state.
JudgeVerbatim(r) ==
  /\ At(r, "verdict")
  /\ run' = IF run[r].verdict = "accepted"
            THEN [run EXCEPT ![r].pc = "authority"]
            ELSE [run EXCEPT ![r].state = run[r].verdict, ![r].pc = "row"]
  /\ UNCHANGED <<rootOf, target, edits, twinDir, store>>

\* An accepted report carries the digest of VerifierAfter, so the comparison
\* that follows it in the code always succeeds.
Judge(r) ==
  /\ At(r, "verdict")
  /\ run' = IF run[r].verdict = "accepted"
            THEN [run EXCEPT ![r].pc = "authority"]
            ELSE [run EXCEPT ![r].state = "NonReproducible", ![r].pc = "row"]
  /\ UNCHANGED <<rootOf, target, edits, twinDir, store>>

\* A configured THEUSTAD authority must confirm; its refusal stores nothing.
Authorize(r) ==
  /\ At(r, "authority")
  /\ \/ run' = [run EXCEPT ![r].verified = TRUE, ![r].level = 4,
                           ![r].log = Append(@, "FindingVerified"), ![r].pc = "minimize"]
     \/ Fail(r)
  /\ UNCHANGED <<rootOf, target, edits, twinDir, store>>

\* minimize_reproduction repeats the attack on the process started by Begin;
\* the oracle may survive its negative controls, which ends the run.
Minimize(r) ==
  /\ At(r, "minimize")
  /\ \/ /\ run[r].serving \in Leaks
        /\ run' = [run EXCEPT ![r].level = 5, ![r].log = Append(@, "FindingVerified"),
                              ![r].pc = "twin"]
     \/ Fail(r)
  /\ UNCHANGED <<rootOf, target, edits, twinDir, store>>

Twin(r) == twinDir[rootOf[r]]

\* Remove the work root's twin and copy the target in its place.
CopyTwin(r) ==
  /\ At(r, "twin") /\ Go(r, "patch")
  /\ twinDir' = [twinDir EXCEPT ![rootOf[r]] = target]
  /\ UNCHANGED <<rootOf, target, edits, store>>

PatchTwin(r) ==
  /\ At(r, "patch") /\ Go(r, "check")
  /\ twinDir' = [twinDir EXCEPT ![rootOf[r]] = IF @ \in Unpatched THEN Rewrite[@] ELSE @]
  /\ UNCHANGED <<rootOf, target, edits, store>>

\* Mutant: the patch is recorded as the tree it was made from.
CheckTwinRecordsSource(r) ==
  /\ At(r, "check")
  /\ IF Twin(r) \in Patched /\ target = run[r].original
     THEN run' = [run EXCEPT ![r].patch = run[r].original, ![r].pc = "reattack",
                             ![r].log = Append(@, "PatchCandidateCreated")]
     ELSE Fail(r)
  /\ UNCHANGED <<rootOf, target, edits, twinDir, store>>

\* twin_is_patched, the patch's digest, and the original's digest once more.
CheckTwin(r) ==
  /\ At(r, "check")
  /\ IF Twin(r) \in Patched /\ target = run[r].original
     THEN run' = [run EXCEPT ![r].patch = Twin(r), ![r].pc = "reattack",
                             ![r].log = Append(@, "PatchCandidateCreated")]
     ELSE Fail(r)
  /\ UNCHANGED <<rootOf, target, edits, twinDir, store>>

\* Mutant: the variant of the attack is not tried.
TwinHoldsNoVariant(t) == t \in Starts \ Leaks /\ t \in Works

\* The original attack, its variant and the functional invariant on a process.
TwinHolds(t) == t \in Starts \ (Leaks \cup Variants) /\ t \in Works

\* RunningFixture::start runs whatever the twin directory holds now.
Reattack(r) ==
  /\ At(r, "reattack")
  /\ IF TwinHolds(Twin(r))
     THEN run' = [run EXCEPT ![r].twin = Twin(r), ![r].level = 6, ![r].pc = "regression"]
     ELSE Fail(r)
  /\ UNCHANGED <<rootOf, target, edits, twinDir, store>>

\* The regression is written into the twin directory and talks to the process
\* that is already running; it may fail for want of a runtime.
Regress(r) ==
  /\ At(r, "regression")
  /\ \/ /\ TwinHolds(run[r].twin)
        /\ run' = [run EXCEPT ![r].level = 7, ![r].state = "RegressionProtected",
                              ![r].log = @ \o <<"ReattackCompleted", "CampaignCompleted">>,
                              ![r].pc = "row"]
     \/ Fail(r)
  /\ UNCHANGED <<rootOf, target, edits, twinDir, store>>

-----------------------------------------------------------------------------
(***************************************************************************)
(* The store.  Verdicts that end in an error have no graph.                *)
(***************************************************************************)
\* Mutant: a completed campaign goes on to its graph without its ledger.
PutCampaignOnly(r) ==
  /\ At(r, "row") /\ row' = [row EXCEPT ![r] = run[r].state]
  /\ Go(r, IF run[r].state = "RegressionProtected" THEN "graph" ELSE "ledger")
  /\ UNCHANGED <<rootOf, target, edits, twinDir, stored, graph>>

PutCampaign(r) ==
  /\ At(r, "row") /\ row' = [row EXCEPT ![r] = run[r].state]
  /\ Go(r, "ledger")
  /\ UNCHANGED <<rootOf, target, edits, twinDir, stored, graph>>

PersistLedger(r) ==
  /\ At(r, "ledger") /\ stored' = [stored EXCEPT ![r] = run[r].log]
  /\ IF run[r].state \in {"Refuted", "RegressionProtected"} THEN Go(r, "graph") ELSE Fail(r)
  /\ UNCHANGED <<rootOf, target, edits, twinDir, row, graph>>

PersistGraph(r) ==
  /\ At(r, "graph") /\ graph' = graph \cup {r} /\ Go(r, "final")
  /\ UNCHANGED <<rootOf, target, edits, twinDir, row, stored>>

\* The last snapshot only fills original_digest_after.
Return(r) ==
  /\ At(r, "final") /\ run' = [run EXCEPT ![r] = [Lost("ok") EXCEPT !.state = run[r].state]]
  /\ UNCHANGED <<rootOf, target, edits, twinDir, store>>

-----------------------------------------------------------------------------
\* A `?' of the engine: a broker denial, a lost connection, a full disk.
Abort(r) ==
  /\ run[r].pc \in Engine \ {"verdict"} /\ Fail(r)
  /\ UNCHANGED <<rootOf, target, edits, twinDir, store>>

\* arosd dies, and every engine thread with it.
Crash ==
  /\ \E r \in Runs : run[r].pc \in Engine \cup Verifying
  /\ run' = [r \in Runs |-> IF run[r].pc \in Engine \cup Verifying
                            THEN Lost("crashed") ELSE run[r]]
  /\ UNCHANGED <<rootOf, target, edits, twinDir, store>>

\* The operator edits the target while a campaign may be running.
Edit(t) ==
  /\ edits < MaxEdits /\ Inputs < MaxInputs /\ t # target
  /\ target' = t /\ edits' = edits + 1
  /\ UNCHANGED <<rootOf, twinDir, run, store>>

Done == (\A r \in Runs : run[r].pc \in {"idle"} \cup Ended) /\ UNCHANGED vars

EngineStep(r) ==
  \/ Open(r) \/ Research(r) \/ Deadline(r) \/ Judge(r) \/ Authorize(r) \/ Minimize(r)
  \/ CopyTwin(r) \/ PatchTwin(r) \/ CheckTwin(r) \/ Reattack(r) \/ Regress(r)
  \/ PutCampaign(r) \/ PersistLedger(r) \/ PersistGraph(r) \/ Return(r)

VerifierStep(r) ==
  VerifierBefore(r) \/ VerifierCopy(r) \/ VerifierReplay(r) \/ VerifierAfter(r)

Next ==
  \/ \E r \in Runs : \/ \E kind \in KindsOfRun : Begin(r, kind)
                     \/ EngineStep(r) \/ VerifierStep(r) \/ Abort(r)
  \/ \E t \in Trees : Edit(t)
  \/ Crash \/ Done

\* An engine thread keeps running: its HTTP requests and the wait for the
\* verifier have deadlines.  The verifier itself may be stuck.
Spec == Init /\ [][Next]_vars /\ \A r \in Runs : WF_vars(EngineStep(r))

-----------------------------------------------------------------------------
(***************************************************************************)
(* Properties.                                                             *)
(***************************************************************************)
\* A verified finding was reproduced by the verifier on the very tree that was
\* snapshotted when the campaign opened, and that tree leaks, however the
\* target was edited between the snapshots, the copy and the replay.
VerifiedOnExactTree ==
  \A r \in Runs : run[r].verified => run[r].copy = run[r].original /\ run[r].copy \in Leaks

\* E7 is a differential: the authorised tree leaks, and the twin process that
\* was attacked does not, not even to the variant, and still works; also when
\* another run has replaced the twin directory meanwhile.
DifferentialEarned ==
  \A r \in Runs : run[r].level = 7 =>
    /\ run[r].original \in Leaks
    /\ run[r].twin \notin Leaks \cup Variants /\ run[r].twin \in Works

\* What a reader of the store sees after a crash or a failed write: a ledger
\* only below its row, a graph only below its ledger, a row that says
\* RegressionProtected exactly when its ledger ends in CampaignCompleted, and
\* everything in place when the request was answered with an outcome.
StoreTellsOneStory ==
  \A r \in Runs :
    /\ stored[r] # << >> =>
         /\ row[r] # "none"
         /\ (stored[r][Len(stored[r])] = "CampaignCompleted") <=> (row[r] = "RegressionProtected")
    /\ r \in graph => stored[r] # << >>
    /\ At(r, "ok") => r \in graph /\ row[r] = run[r].state

\* A run with a work root of its own attacks the tree whose digest it reports
\* as the patch, and that tree is not the original.
PatchIsWhatWasAttacked ==
  \A r \in Runs :
    /\ run[r].level >= 6
    /\ \A s \in Runs \ {r} : rootOf[s] # rootOf[r]
    => run[r].twin = run[r].patch /\ run[r].patch # run[r].original

\* Every request ends, also when the verifier process is stuck.
RunsEnd == \A r \in Runs : run[r].pc \in Engine \cup Verifying ~> run[r].pc \in Ended

\* engine.rs, verifier_replay: unreachable!("negative control never reaches E4").
ControlNeverReached == \A r \in Runs : ~At(r, "panicked")
=============================================================================
