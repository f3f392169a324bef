--------------------------- MODULE DeclaredCampaign ---------------------------
(***************************************************************************)
(* One work directory and the declared campaigns run into it, one after    *)
(* the other (`aros campaign run --spec S --target T --work W [--twin P]`).*)
(*                                                                         *)
(* A run (CampaignEngine::run_declared_campaign) snapshots the target, runs*)
(* generator arms against it, reproduces them on a replica, optionally     *)
(* runs them on a copy of a patched twin, and then commits its verdict to  *)
(* five places one after the other: the campaign row, the event ledger,    *)
(* the research graph, certificate.json and the HTML report.  The target   *)
(* and the twin belong to the operator and may be edited at any moment; a  *)
(* `?' or a crash may end the run between any two steps.                   *)
(*                                                                         *)
(* A tree digest is collision free, so it is represented by the tree it    *)
(* was taken of; the ledger's head hash by the sequence it authenticates.  *)
(***************************************************************************)
EXTENDS Evidence

CONSTANTS
  Files,       \* relative paths that a snapshot of a tree covers
  CopySkips,   \* those of them that copy_source_tree skips (a ".aros" entry)
  Contents,    \* what a file can contain
  Payloads,    \* minimized payloads a generator can print
  Harnesses,   \* digests archive_harnesses can produce
  Tokens,      \* the tokens oracles look for
  Specs,       \* campaign specifications, with the engine's flags
  MaxRuns,     \* bound: runs in this work directory
  MaxDrift,    \* bound: edits of the target and the twin
  None,        \* no file, no digest, no row
  Torn         \* a file that was truncated but not yet rewritten

Runs  == 1 .. MaxRuns
Trees == [Files -> Contents \cup {None}]

Oracles == [decides : {"StdoutContains", "StdoutNotContains", "ExitCode"},
            match : STRING, control : STRING]

FinalStates == {"Failed", "InsufficientEvidence", "Verified",
                "RegressionProtected", "Refuted"}
Conclusions == {"Verified", "Claimed", "Refuted", "Stale"}

ASSUME BoundsAssumption == MaxRuns \in Nat /\ MaxDrift \in Nat

ASSUME NoneAssumption ==
  /\ None \notin Contents \cup Payloads \cup Harnesses \cup Trees \cup FinalStates \cup Conclusions
  /\ None # Torn

\* CampaignSpec::validate, and attack_plans: there is always a plan.
Valid(s) ==
  /\ s.plans \in Seq(STRING) /\ s.plans # << >>
  /\ \A i \in DOMAIN s.plans : s.oracle[s.plans[i]] \in Oracles
  /\ s.controlOracle \in Oracles
  /\ s.required \in SUBSET Levels /\ s.required # {}
  /\ s.control \in BOOLEAN /\ s.twin \in BOOLEAN /\ s.contained \in BOOLEAN

ASSUME SpecsAssumption == \A s \in Specs : Valid(s)

VARIABLES
  pc, cid, result,              \* control of the current run; how runs ended
  target, twin, drifts,         \* the operator's trees
  spec, original, twinBefore, afterAll,        \* the run's inputs and snapshots
  ledger, harness,              \* its ledger and harness digest
  judged, shrink, minimized,    \* what its arms printed
  independent, twinHolds, e7,   \* what its arms established
  ranOn,                        \* history: the trees on which they did
  campaigns, ledgers, graphs, cards,           \* the SQLite store
  certificate, report, minimizedBin, regressionFile,
  replicaDir, twinDir           \* the work directory

env     == <<target, twin, drifts>>
inputs  == <<spec, original, twinBefore, afterAll, harness>>
arms    == <<judged, shrink, minimized, ranOn>>
flags   == <<independent, twinHolds, e7>>
memory  == <<inputs, ledger, arms, flags>>
store   == <<campaigns, ledgers, graphs, cards>>
outputs == <<certificate, report, minimizedBin, regressionFile>>
copies  == <<replicaDir, twinDir>>
vars    == <<pc, cid, result, env, memory, store, outputs, copies>>

-----------------------------------------------------------------------------
(* Types *)

EventKinds == {"TargetSnapshotted", "EvidenceCreated", "ObservationRecorded",
               "ReattackCompleted", "RegressionCreated", "AssumptionCreated",
               "CertificateIssued"}
Artifacts  == Trees \cup Payloads \cup Harnesses \cup {None}
Events     == [kind : EventKinds, artifact : Artifacts,
               contained : BOOLEAN, unmodified : BOOLEAN]

Event(kind, artifact) ==
  [kind |-> kind, artifact |-> artifact, contained |-> FALSE, unmodified |-> FALSE]
Issued(contained, unmodified) ==
  [kind |-> "CertificateIssued", artifact |-> None,
   contained |-> contained, unmodified |-> unmodified]

Certificates ==
  [cid : Runs, state : FinalStates, level : Levels, verified : BOOLEAN,
   original : Trees, after : Trees, harness : Harnesses \cup {None},
   m : Measurements, minimized : Payloads \cup {None},
   contained : BOOLEAN, met : BOOLEAN, head : Seq(Events), release : BOOLEAN]

ASSUME NoCertificateAssumption == None \notin Certificates /\ Torn \notin Certificates

Labels == {"idle", "environment", "mismatchLedger", "mismatchReport", "archive",
           "good", "mutant", "attack", "judge", "copyReplica", "runReplica",
           "checkOriginal", "copyTwin", "runTwin", "checkTwin", "tryE7",
           "snapshotAll", "conclude", "persistLedger", "persistGraph", "openCertificate",
           "writeCertificate", "report"}

ControlTypeOK ==
  /\ pc \in Labels
  /\ cid \in 0 .. MaxRuns
  /\ pc # "idle" => cid \in Runs
  /\ result \in [Runs -> {None, "running", "ok", "err"}]

EnvTypeOK ==
  /\ target \in Trees
  /\ twin \in Trees
  /\ drifts \in 0 .. MaxDrift

InputsTypeOK ==
  /\ pc # "idle" => spec \in Specs
  /\ original \in Trees
  /\ twinBefore \in Trees
  /\ afterAll \in Trees
  /\ harness \in Harnesses \cup {None}

LedgerTypeOK == ledger \in Seq(Events)

ArmsTypeOK ==
  /\ judged \in Seq(Judgements)
  /\ shrink \in Payloads \cup {None}
  /\ minimized \in Payloads \cup {None}
  /\ ranOn \in [replica : Trees, replicaJudged : Seq(Judgements),
                twin : Trees, shrinkFrom : Judgements]

FlagsTypeOK ==
  independent \in BOOLEAN /\ twinHolds \in BOOLEAN /\ e7 \in BOOLEAN /\ regressionFile \in BOOLEAN

StoreTypeOK ==
  /\ campaigns \in [Runs -> FinalStates \cup {None}]
  /\ ledgers \in [Runs -> Seq(Events)]
  /\ graphs \in [Runs -> Conclusions \cup {None}]
  /\ cards \in SUBSET (Runs \X {"ToolGap", "VerificationFailure"})

OutputsTypeOK ==
  /\ certificate \in Certificates \cup {None, Torn}
  /\ report \in 0 .. MaxRuns
  /\ minimizedBin \in Payloads \cup {None}

CopiesTypeOK == replicaDir \in Trees /\ twinDir \in Trees

(***************************************************************************)
(* Every variable of the run, its surroundings, the store and the work     *)
(* directory keeps its type, and only a verdict ever reaches a row.        *)
(***************************************************************************)
TypeOK ==
  /\ ControlTypeOK /\ EnvTypeOK /\ InputsTypeOK /\ LedgerTypeOK /\ ArmsTypeOK
  /\ FlagsTypeOK /\ StoreTypeOK /\ OutputsTypeOK /\ CopiesTypeOK

EmptyTree == [f \in Files |-> None]
NothingRun == [replica |-> EmptyTree, replicaJudged |-> << >>,
               twin |-> EmptyTree, shrinkFrom |-> Indeterminate]

\* A fresh work directory beside a target and a twin of any content.
Init ==
  /\ pc = "idle" /\ cid = 0 /\ result = [c \in Runs |-> None]
  /\ target \in Trees /\ twin \in Trees /\ drifts = 0
  /\ spec = None /\ original = EmptyTree /\ twinBefore = EmptyTree
  /\ afterAll = EmptyTree /\ ledger = << >> /\ harness = None
  /\ judged = << >> /\ shrink = None /\ minimized = None /\ ranOn = NothingRun
  /\ independent = FALSE /\ twinHolds = FALSE /\ e7 = FALSE
  /\ campaigns = [c \in Runs |-> None] /\ ledgers = [c \in Runs |-> << >>]
  /\ graphs = [c \in Runs |-> None] /\ cards = {}
  /\ certificate = None /\ report = 0
  /\ minimizedBin = None /\ regressionFile = FALSE
  /\ replicaDir = EmptyTree /\ twinDir = EmptyTree

-----------------------------------------------------------------------------
(* Helpers *)

\* copy_source_tree: writes over `dst' what `src' has; removes nothing from it.
CopySourceTree(src, dst) ==
  [f \in Files |-> IF f \notin CopySkips /\ src[f] # None THEN src[f] ELSE dst[f]]

\* A copy that failed half way has written some of the files.
PartialCopies(src, dst) ==
  {[f \in Files |-> IF f \in done THEN CopySourceTree(src, dst)[f] ELSE dst[f]]
     : done \in SUBSET Files}

\* An arm runs with the tree as its working directory and may leave a file.
Leftovers(tree) == {tree} \cup {[tree EXCEPT ![f] = c] : f \in Files, c \in Contents}

\* What an arm judged by `oracle' can come out as.
Outcomes(oracle) == {EvaluateOracle(text, oracle) : text \in SUBSET Tokens}

\* What the arms measured, and what follows from it.
Measured  == [independent |-> independent, twinHolds |-> twinHolds, e7 |-> e7,
              shrink |-> minimized # None]
Judgement == Overall(judged)
Level     == RawLevel(Judgement, Measured)
Met       == SatisfiesRequired(spec.required, Level, Measured)
Verdict   == StateFor(Judgement, Level, Met)
Verified  == Verdict \in VerifiedStates

Goto(label) == pc' = label /\ UNCHANGED <<cid, result>>

\* The run's memory goes with it.
Return(how) ==
  /\ pc' = "idle" /\ result' = [result EXCEPT ![cid] = how] /\ UNCHANGED cid
  /\ spec' = None /\ original' = EmptyTree /\ twinBefore' = EmptyTree
  /\ afterAll' = EmptyTree /\ ledger' = << >> /\ harness' = None
  /\ judged' = << >> /\ shrink' = None /\ minimized' = None /\ ranOn' = NothingRun
  /\ independent' = FALSE /\ twinHolds' = FALSE /\ e7' = FALSE

\* fail_closed_no_evidence: three writes whose errors are ignored, then Err.
FailClosed(category, events) ==
  /\ \E saved \in SUBSET {"card", "row", "ledger"} :
       /\ cards' = IF "card" \in saved THEN cards \cup {<<cid, category>>} ELSE cards
       /\ campaigns' = IF "row" \in saved
                       THEN [campaigns EXCEPT ![cid] = "InsufficientEvidence"]
                       ELSE campaigns
       /\ ledgers' = IF "ledger" \in saved
                     THEN [ledgers EXCEPT ![cid] = events] ELSE ledgers
  /\ Return("err")
  /\ UNCHANGED graphs

-----------------------------------------------------------------------------
(* The run *)

\* Opens the store, snapshots the target, starts a ledger.  The campaign id is
\* minted for the run (default_declared_manifest).
StartRun ==
  /\ pc = "idle" /\ cid < MaxRuns
  /\ pc' = "environment" /\ cid' = cid + 1
  /\ result' = [result EXCEPT ![cid + 1] = "running"]
  /\ spec' \in Specs
  /\ original' = target
  /\ ledger' = <<Event("TargetSnapshotted", target)>>
  /\ UNCHANGED <<env, twinBefore, afterAll, harness, arms, flags, store, outputs, copies>>

\* An unreproducible toolchain pin ends the run as Failed: row, ledger, report.
EnvironmentMismatch ==
  /\ pc = "environment" /\ Goto("mismatchLedger")
  /\ campaigns' = [campaigns EXCEPT ![cid] = "Failed"]
  /\ UNCHANGED <<env, memory, ledgers, graphs, cards, outputs, copies>>

MismatchLedger ==
  /\ pc = "mismatchLedger" /\ Goto("mismatchReport")
  /\ ledgers' = [ledgers EXCEPT ![cid] = ledger]
  /\ UNCHANGED <<env, memory, campaigns, graphs, cards, outputs, copies>>

MismatchReport ==
  /\ pc = "mismatchReport" /\ Return("ok")
  /\ report' = cid
  /\ UNCHANGED <<env, store, certificate, minimizedBin, regressionFile, copies>>

EnvironmentMatches ==
  /\ pc = "environment" /\ Goto("archive")
  /\ UNCHANGED <<env, memory, store, outputs, copies>>

\* archive_harnesses: the combined harness digest and its ledger event, or
\* nothing when no harness file was found.
ArchiveHarnesses ==
  /\ pc = "archive" /\ Goto(IF spec.control THEN "good" ELSE "attack")
  /\ \E h \in Harnesses \cup {None} :
       /\ harness' = h
       /\ ledger' = IF h = None THEN ledger
                    ELSE Append(ledger, Event("EvidenceCreated", h))
  /\ UNCHANGED <<env, spec, original, twinBefore, afterAll, arms, flags, store,
                 outputs, copies>>

\* A structural control arm that does not come out as `wanted' fails the run.
ControlArm(wanted, next) ==
  /\ \E j \in Outcomes(spec.controlOracle) :
       IF j = wanted THEN Goto(next) /\ UNCHANGED <<memory, store>>
                     ELSE FailClosed("ToolGap", ledger)
  /\ UNCHANGED <<env, outputs, copies>>

GoodArm   == pc = "good" /\ ControlArm(Holds, "mutant")
MutantArm == pc = "mutant" /\ ControlArm(Attack, "attack")

MissingGenerator ==
  /\ pc = "attack" /\ FailClosed("ToolGap", ledger)
  /\ UNCHANGED <<env, outputs, copies>>

\* One iteration of the surface loop.  A later shrink proof replaces an
\* earlier one; an indeterminate oracle ends the run.
AttackPlan ==
  /\ pc = "attack"
  /\ LET i == Len(judged) + 1
         observed == Append(ledger, Event("ObservationRecorded", None))
     IN  \E j \in Outcomes(spec.oracle[spec.plans[i]]), proof \in Payloads \cup {None} :
           IF j = Indeterminate THEN FailClosed("VerificationFailure", observed)
           ELSE /\ ledger' = observed
                /\ judged' = Append(judged, j)
                /\ shrink' = IF proof # None THEN proof ELSE shrink
                /\ ranOn' = IF proof # None THEN [ranOn EXCEPT !.shrinkFrom = j] ELSE ranOn
                /\ Goto(IF i = Len(spec.plans) THEN "judge" ELSE "attack")
                /\ UNCHANGED <<inputs, minimized, flags, store>>
  /\ UNCHANGED <<env, outputs, copies>>

\* Mutant: an existing minimized.bin is left alone.
JudgeAttackKeepingFile ==
  /\ pc = "judge"
  /\ Goto(IF target = original THEN "copyReplica" ELSE "copyTwin")
  /\ IF Judgement = Attack /\ shrink # None
     THEN /\ minimized' = shrink
          /\ minimizedBin' = IF minimizedBin = None THEN shrink ELSE minimizedBin
          /\ ledger' = Append(ledger, Event("EvidenceCreated", shrink))
     ELSE UNCHANGED <<minimized, minimizedBin, ledger>>
  /\ UNCHANGED <<env, inputs, judged, shrink, ranOn, flags, store, certificate, report,
                 regressionFile, copies>>

\* Second snapshot; when the attack succeeded and a shrink proof was printed,
\* its bytes are stored, logged and written to minimized.bin.  The replica is
\* tried only if the target still has the original digest.
JudgeAttack ==
  /\ pc = "judge"
  /\ Goto(IF target = original THEN "copyReplica" ELSE "copyTwin")
  /\ IF Judgement = Attack /\ shrink # None
     THEN /\ minimized' = shrink /\ minimizedBin' = shrink
          /\ ledger' = Append(ledger, Event("EvidenceCreated", shrink))
     ELSE UNCHANGED <<minimized, minimizedBin, ledger>>
  /\ UNCHANGED <<env, inputs, judged, shrink, ranOn, flags, store, certificate, report,
                 regressionFile, copies>>

-----------------------------------------------------------------------------
(* independently_reproduce *)

\* Mutant: the copy's digest is not compared.
CopyReplicaUnchecked ==
  /\ pc = "copyReplica"
  /\ replicaDir' = CopySourceTree(target, replicaDir)
  /\ Goto("runReplica")
  /\ UNCHANGED <<env, memory, store, outputs, twinDir>>

\* The target is copied over work_root/e4-replica, whose digest must then be
\* the original's.
CopyReplica ==
  /\ pc = "copyReplica"
  /\ \/ /\ replicaDir' = CopySourceTree(target, replicaDir)
        /\ Goto(IF replicaDir' = original THEN "runReplica" ELSE "copyTwin")
     \/ /\ replicaDir' \in PartialCopies(target, replicaDir)
        /\ Goto("copyTwin")
  /\ UNCHANGED <<env, memory, store, outputs, twinDir>>

\* The judgement a plan's replica arm is compared with: the first one recorded
\* under the plan's name.
Expected(i) ==
  LET same == {k \in 1 .. Len(judged) : spec.plans[k] = spec.plans[i]}
  IN  judged[CHOOSE k \in same : \A n \in same : k <= n]

RunReplica ==
  /\ pc = "runReplica"
  /\ replicaDir' \in Leftovers(replicaDir)
  /\ \E again \in [1 .. Len(judged) -> Judgements] :
       /\ \A i \in DOMAIN again : again[i] \in Outcomes(spec.oracle[spec.plans[i]])
       /\ IF \A i \in DOMAIN again : again[i] = Expected(i)
          THEN /\ Goto("checkOriginal")
               /\ ranOn' = [ranOn EXCEPT !.replica = replicaDir, !.replicaJudged = again]
          ELSE Goto("copyTwin") /\ UNCHANGED ranOn
  /\ UNCHANGED <<env, inputs, ledger, judged, shrink, minimized, flags, store, outputs,
                 twinDir>>

\* Mutant: a replica arm that cannot be run is tried again.
ReplicaArmRetried ==
  /\ pc = "runReplica" /\ Goto("copyReplica")
  /\ replicaDir' \in Leftovers(replicaDir)
  /\ UNCHANGED <<env, memory, store, outputs, twinDir>>

\* A replica arm that cannot be run only costs the run its E4.
ReplicaArmFails ==
  /\ pc = "runReplica" /\ Goto("copyTwin")
  /\ replicaDir' \in Leftovers(replicaDir)
  /\ UNCHANGED <<env, memory, store, outputs, twinDir>>

\* A snapshot that fails counts as a changed tree, here and for the twin.
CheckOriginal ==
  /\ pc = "checkOriginal" /\ Goto("copyTwin")
  /\ independent' \in {FALSE, target = original}
  /\ UNCHANGED <<env, inputs, ledger, arms, twinHolds, e7, store, outputs, copies>>

-----------------------------------------------------------------------------
(* twin_invariant_holds *)

NoTwin ==
  /\ pc = "copyTwin" /\ ~(Judgement = Attack /\ spec.twin) /\ Goto("tryE7")
  /\ UNCHANGED <<env, memory, store, outputs, copies>>

\* The twin is copied over work_root/e6-twin; the copy is not compared with it.
CopyTwin ==
  /\ pc = "copyTwin" /\ Judgement = Attack /\ spec.twin
  /\ twinBefore' = twin
  /\ \/ twinDir' = CopySourceTree(twin, twinDir) /\ Goto("runTwin")
     \/ twinDir' \in PartialCopies(twin, twinDir) /\ Goto("tryE7")
  /\ UNCHANGED <<env, spec, original, afterAll, harness, ledger, arms, flags, store,
                 outputs, replicaDir>>

\* Every plan must hold on the copy; a failed arm counts as not holding.
RunTwin ==
  /\ pc = "runTwin"
  /\ twinDir' \in Leftovers(twinDir)
  /\ \/ /\ \A i \in DOMAIN spec.plans : Holds \in Outcomes(spec.oracle[spec.plans[i]])
        /\ ranOn' = [ranOn EXCEPT !.twin = twinDir]
        /\ Goto("checkTwin")
     \/ Goto("tryE7") /\ UNCHANGED ranOn
  /\ UNCHANGED <<env, inputs, ledger, judged, shrink, minimized, flags, store, outputs,
                 replicaDir>>

CheckTwin ==
  /\ pc = "checkTwin" /\ Goto("tryE7")
  /\ twinHolds' \in {FALSE, twin = twinBefore /\ target = original}
  /\ UNCHANGED <<env, inputs, ledger, arms, independent, e7, store, outputs, copies>>

\* try_declared_e7: a variant of the attack that breaks the replica and holds
\* on the twin copy, then a generated regression, which is written and must
\* pass on the twin copy.
TryE7 ==
  /\ pc = "tryE7" /\ twinHolds /\ independent /\ Goto("snapshotAll")
  /\ replicaDir' \in Leftovers(replicaDir) /\ twinDir' \in Leftovers(twinDir)
  /\ \E variant, passes \in BOOLEAN :
       /\ regressionFile' = (regressionFile \/ variant)
       /\ e7' = (variant /\ passes)
  /\ UNCHANGED <<env, inputs, ledger, arms, independent, twinHolds, store, certificate,
                 report, minimizedBin>>

SkipE7 ==
  /\ pc = "tryE7" /\ ~(twinHolds /\ independent) /\ Goto("snapshotAll")
  /\ UNCHANGED <<env, memory, store, outputs, copies>>

-----------------------------------------------------------------------------
(* The verdict and its five writes *)

\* Mutant: E7 survives a change of the target.
SnapshotAllKeepingE7 ==
  /\ pc = "snapshotAll" /\ Goto("conclude")
  /\ afterAll' = target
  /\ UNCHANGED <<env, spec, original, twinBefore, harness, ledger, arms, flags, store,
                 outputs, copies>>

\* The last snapshot: a target that changed costs the run its E7.
SnapshotAll ==
  /\ pc = "snapshotAll" /\ Goto("conclude")
  /\ afterAll' = target
  /\ e7' = (e7 /\ target = original)
  /\ UNCHANGED <<env, spec, original, twinBefore, harness, ledger, arms, independent,
                 twinHolds, store, outputs, copies>>

\* Mutant: the row is saved before its state is set.
ConcludeBeforeVerdict ==
  /\ pc = "conclude" /\ Goto("persistLedger")
  /\ ledger' = IF e7 THEN ledger \o <<Event("ReattackCompleted", None),
                                      Event("RegressionCreated", None)>>
               ELSE ledger
  /\ campaigns' = [campaigns EXCEPT ![cid] = "Experimenting"]
  /\ UNCHANGED <<env, inputs, arms, flags, ledgers, graphs, cards, outputs, copies>>

\* The E7 events go to the ledger in memory, the verdict to the campaign row.
Conclude ==
  /\ pc = "conclude" /\ Goto("persistLedger")
  /\ ledger' = IF e7 THEN ledger \o <<Event("ReattackCompleted", None),
                                      Event("RegressionCreated", None)>>
               ELSE ledger
  /\ campaigns' = [campaigns EXCEPT ![cid] = Verdict]
  /\ UNCHANGED <<env, inputs, arms, flags, ledgers, graphs, cards, outputs, copies>>

\* Mutant: the ledger is saved before CertificateIssued is appended.
PersistLedgerEarly ==
  /\ pc = "persistLedger" /\ Goto("persistGraph")
  /\ \E claim \in {<< >>, <<Event("AssumptionCreated", None)>>} :
       ledger' = Append(ledger \o claim, Issued(spec.contained, original = afterAll))
  /\ ledgers' = [ledgers EXCEPT ![cid] = ledger]
  /\ UNCHANGED <<env, inputs, arms, flags, campaigns, graphs, cards, outputs, copies>>

\* The project's accepted claim, if any, and CertificateIssued are appended;
\* the ledger is verified and replaces the campaign's rows in one transaction.
PersistLedger ==
  /\ pc = "persistLedger" /\ Goto("persistGraph")
  /\ \E claim \in {<< >>, <<Event("AssumptionCreated", None)>>} :
       ledger' = Append(ledger \o claim, Issued(spec.contained, original = afterAll))
  /\ ledgers' = [ledgers EXCEPT ![cid] = ledger']
  /\ UNCHANGED <<env, inputs, arms, flags, campaigns, graphs, cards, outputs, copies>>

\* Mutant: the conclusion ignores the required evidence.
PersistGraphByJudgement ==
  /\ pc = "persistGraph" /\ Goto("openCertificate")
  /\ graphs' = [graphs EXCEPT ![cid] = ConclusionState(Judgement, Judgement = Attack)]
  /\ UNCHANGED <<env, memory, campaigns, ledgers, cards, outputs, copies>>

PersistGraph ==
  /\ pc = "persistGraph" /\ Goto("openCertificate")
  /\ graphs' = [graphs EXCEPT ![cid] = ConclusionState(Judgement, Verified)]
  /\ UNCHANGED <<env, memory, campaigns, ledgers, cards, outputs, copies>>

\* Mutant: the stated verdict ignores the required evidence.
NewCertificateIgnoringRequired ==
  [cid |-> cid, state |-> StateFor(Judgement, Level, TRUE), level |-> Level,
   verified |-> Verified, original |-> original, after |-> afterAll, harness |-> harness,
   m |-> Measured, minimized |-> minimized, contained |-> spec.contained, met |-> Met,
   head |-> ledger, release |-> spec.contained /\ original = afterAll /\ Met]

\* Mutant: the head is read before CertificateIssued is appended.
NewCertificateEarlyHead ==
  [cid |-> cid, state |-> Verdict, level |-> Level, verified |-> Verified,
   original |-> original, after |-> afterAll, harness |-> harness, m |-> Measured,
   minimized |-> minimized, contained |-> spec.contained, met |-> Met,
   head |-> SubSeq(ledger, 1, Len(ledger) - 1),
   release |-> spec.contained /\ original = afterAll /\ Met]

NewCertificate ==
  [cid |-> cid, state |-> Verdict, level |-> Level, verified |-> Verified,
   original |-> original, after |-> afterAll, harness |-> harness, m |-> Measured,
   minimized |-> minimized, contained |-> spec.contained, met |-> Met, head |-> ledger,
   release |-> spec.contained /\ original = afterAll /\ Met]

\* write_certificate refuses a level that the measurements do not match ...
RefuseCertificate ==
  /\ pc = "openCertificate" /\ ~ClaimsMatchLevel(Level, Measured, e7) /\ Return("err")
  /\ UNCHANGED <<env, store, outputs, copies>>

\* ... and otherwise truncates certificate.json, then fills it.
OpenCertificate ==
  /\ pc = "openCertificate" /\ ClaimsMatchLevel(Level, Measured, e7)
  /\ Goto("writeCertificate")
  /\ certificate' = Torn
  /\ UNCHANGED <<env, memory, store, report, minimizedBin, regressionFile, copies>>

WriteCertificate ==
  /\ pc = "writeCertificate" /\ Goto("report")
  /\ certificate' = NewCertificate
  /\ UNCHANGED <<env, memory, store, report, minimizedBin, regressionFile, copies>>

WriteReport ==
  /\ pc = "report" /\ Return("ok")
  /\ report' = cid
  /\ UNCHANGED <<env, store, certificate, minimizedBin, regressionFile, copies>>

-----------------------------------------------------------------------------
(* The surroundings *)

\* A `?' on a file, store, container or generator error, or a killed process.
Abort ==
  /\ pc # "idle" /\ Return("err")
  /\ UNCHANGED <<env, store, outputs, copies>>

\* The operator, or something a generator started, edits the target or twin.
Drift ==
  /\ drifts < MaxDrift /\ drifts' = drifts + 1
  /\ \/ target' \in Trees \ {target} /\ UNCHANGED twin
     \/ twin' \in Trees \ {twin} /\ UNCHANGED target
  /\ UNCHANGED <<pc, cid, result, memory, store, outputs, copies>>

\* The work directory is left alone once its last run has ended.
Finished == pc = "idle" /\ cid = MaxRuns /\ UNCHANGED vars

RunStep ==
  \/ EnvironmentMismatch \/ MismatchLedger \/ MismatchReport
  \/ EnvironmentMatches \/ ArchiveHarnesses \/ GoodArm \/ MutantArm
  \/ MissingGenerator \/ AttackPlan \/ JudgeAttack
  \/ CopyReplica \/ RunReplica \/ ReplicaArmFails \/ CheckOriginal
  \/ NoTwin \/ CopyTwin \/ RunTwin \/ CheckTwin \/ TryE7 \/ SkipE7 \/ SnapshotAll
  \/ Conclude \/ PersistLedger \/ PersistGraph
  \/ RefuseCertificate \/ OpenCertificate \/ WriteCertificate \/ WriteReport

Next == StartRun \/ RunStep \/ Abort \/ Drift \/ Finished

Spec == Init /\ [][Next]_vars

\* Every arm has a deadline and every other step is local work, so a run keeps
\* moving; the operator need not start another.
FairSpec == Spec /\ WF_vars(RunStep)

-----------------------------------------------------------------------------
(* verify_certificate, and what the runs guarantee a reader *)

Certified == certificate \notin {None, Torn}

Announced(events) == \E i \in DOMAIN events : events[i].kind = "CertificateIssued"

\* check_ledger: the stored ledger is the one the certificate's head and length
\* authenticate, it holds the harness digest, and its last CertificateIssued
\* event has the certificate's flags.
CheckLedger(c) ==
  LET stored == ledgers[c.cid]
  IN  /\ stored # << >> /\ stored = c.head
      /\ c.harness # None => \E i \in DOMAIN stored : stored[i].artifact = c.harness
      /\ \E i \in DOMAIN stored :
           /\ stored[i] = Issued(c.contained, c.original = c.after)
           /\ \A k \in DOMAIN stored : k > i => stored[k].kind # "CertificateIssued"

\* verify_certificate: the level matches the measurements, release_eligible
\* matches the limits, and the ledger and both evidence files are in place.
StatementOk ==
  /\ Certified
  /\ LET c == certificate
     IN  /\ ClaimsMatchLevel(c.level, c.m, c.m.e7)
         /\ c.release => c.contained /\ c.original = c.after /\ c.met
         /\ CheckLedger(c)
         /\ c.m.e7 => regressionFile
         /\ c.minimized # None => minimizedBin = c.minimized

(***************************************************************************)
(* A certificate that is on disk whole is backed by the ledger in the      *)
(* store: check_ledger accepts it then and forever after, whatever later   *)
(* runs into the same work directory do and wherever they are cut off.     *)
(***************************************************************************)
CertificateBacked == Certified => CheckLedger(certificate)

(***************************************************************************)
(* Once run_declared_campaign has returned Ok with a verdict, and until    *)
(* the next run starts, certificate.json is this run's and                 *)
(* verify_certificate accepts it: its payload and regression files are     *)
(* those on disk although earlier runs wrote to the same paths.            *)
(***************************************************************************)
OkRunVerifies ==
  (pc = "idle" /\ cid > 0 /\ result[cid] = "ok" /\ campaigns[cid] # "Failed")
    => StatementOk /\ certificate.cid = cid

(***************************************************************************)
(* Row, ledger, graph and certificate never tell different stories: a      *)
(* stored ledger that announces a certificate has its verdict row, a graph *)
(* conclusion has both, it is Verified exactly when the row is, and the    *)
(* certificate repeats the row.  Each write may be the last one made.      *)
(***************************************************************************)
StoresAgree ==
  /\ \A c \in Runs :
       /\ Announced(ledgers[c]) => campaigns[c] \notin {None, "Failed"}
       /\ graphs[c] # None =>
            /\ Announced(ledgers[c])
            /\ graphs[c] = "Verified" <=> campaigns[c] \in VerifiedStates
  /\ Certified => /\ graphs[certificate.cid] # None
                  /\ campaigns[certificate.cid] = certificate.state
                  /\ certificate.verified <=> certificate.state \in VerifiedStates

(***************************************************************************)
(* E4 means what it says: when a run holds `independent', the arms were    *)
(* run again on a tree whose digest was the original's, and came out as on *)
(* the original (for plans with different names).                          *)
(***************************************************************************)
ReplicaIsOriginal ==
  independent =>
    /\ ranOn.replica = original
    /\ (\A i, k \in DOMAIN spec.plans : spec.plans[i] = spec.plans[k] => i = k)
         => ranOn.replicaJudged = judged

(***************************************************************************)
(* The top of the ladder is never kept after the target moved: an E7       *)
(* certificate has equal digests, its regression script is on disk and     *)
(* both E7 events are in its ledger; and one that is release-eligible was  *)
(* contained, met its requirement and has equal digests.                   *)
(***************************************************************************)
TopLevelEarned ==
  Certified =>
    /\ certificate.level = 7 =>
         /\ certificate.original = certificate.after /\ regressionFile
         /\ certificate.m.independent /\ certificate.m.twinHolds
         /\ \E i \in DOMAIN certificate.head : certificate.head[i].kind = "RegressionCreated"
    /\ certificate.release =>
         certificate.met /\ certificate.contained /\ certificate.original = certificate.after

(***************************************************************************)
(* Whatever is cut off where, the work directory refines the bundle a      *)
(* reader relies on: verdicts and logs are written once, and a certificate *)
(* is issued only over a durable row and a durable ledger that it repeats. *)
(***************************************************************************)
Bundle == INSTANCE EvidenceBundle WITH
  Campaigns <- Runs, States <- FinalStates, Logs <- Seq(Events), NoValue <- None,
  NoLog <- << >>, row <- campaigns, log <- ledgers,
  statement <- IF Certified
               THEN [campaign |-> certificate.cid, state |-> certificate.state,
                     log |-> certificate.head]
               ELSE None

ImplementsBundle == Bundle!Spec

(***************************************************************************)
(* A run that was started returns: no loop over plans, replica or twin     *)
(* keeps it busy for ever.                                                 *)
(***************************************************************************)
RunReturns == (pc # "idle") ~> (pc = "idle")

-----------------------------------------------------------------------------
(* The commit order, as an inductive invariant *)

Committing  == {"persistLedger", "persistGraph", "openCertificate", "writeCertificate",
                "report"}
Mismatching == {"mismatchLedger", "mismatchReport"}
Running     == Labels \ (Committing \cup Mismatching \cup {"idle"})
Logged      == Committing \ {"persistLedger"}
Graphed     == Logged \ {"persistGraph"}

\* Nothing is stored under an id before its run.
FreshIds ==
  \A c \in Runs : c > cid => campaigns[c] = None /\ ledgers[c] = << >> /\ graphs[c] = None

RowInv ==
  /\ pc \in Running => campaigns[cid] = None
  /\ pc \in Mismatching => campaigns[cid] = "Failed"
  /\ pc \in Committing => campaigns[cid] = Verdict

LedgerInv ==
  /\ pc \in Running \cup {"mismatchLedger", "persistLedger"} => ledgers[cid] = << >>
  /\ pc \in Logged => /\ ledgers[cid] = ledger
                      /\ ledger[Len(ledger)] = Issued(spec.contained, original = afterAll)
  /\ pc = "idle" <=> ledger = << >>
  /\ pc \notin Logged => ~Announced(ledger)
  /\ pc = "mismatchReport" => ~Announced(ledgers[cid])
  /\ harness # None => \E i \in DOMAIN ledger : ledger[i].artifact = harness

GraphInv ==
  /\ pc \in Labels \ (Graphed \cup {"idle"}) => graphs[cid] = None
  /\ pc \in Graphed => graphs[cid] = ConclusionState(Judgement, Verified)

\* The certificate on disk is of an earlier run until this one has written its
\* own, and repeats what was stored before it.
CertificateInv ==
  /\ pc = "writeCertificate" => certificate = Torn
  /\ Certified => /\ certificate.cid <= cid
                  /\ certificate.cid = cid => pc \in {"report", "idle"}

(***************************************************************************)
(* The commit order of run_declared_campaign: at every point of a run the  *)
(* row, the ledger and the graph hold exactly what the steps before that   *)
(* point have stored, each complete, and nothing of the steps after it.    *)
(***************************************************************************)
CommitInvariant ==
  FreshIds /\ RowInv /\ LedgerInv /\ GraphInv /\ CertificateInv

-----------------------------------------------------------------------------
(* Statements of the documentation that the code does not keep *)

(***************************************************************************)
(* docs/evidence/evidence-bundle.md: a declared campaign writes            *)
(* certificate.json, and the event CertificateIssued is about it.  A run   *)
(* whose row says Verified and whose ledger already says CertificateIssued *)
(* is then not refused its certificate.                                    *)
(***************************************************************************)
VerifiedIsCertifiable ==
  pc = "openCertificate" /\ campaigns[cid] = "Verified"
    => ClaimsMatchLevel(Level, Measured, e7)

(***************************************************************************)
(* docs/evidence/evidence-levels.md, E6: the campaign holds on a copy of   *)
(* the operator's twin (here for a twin that copy_source_tree copies       *)
(* whole).                                                                 *)
(***************************************************************************)
HoldsOnTheTwin ==
  twinHolds /\ (\A f \in CopySkips : twinBefore[f] = None) => ranOn.twin = twinBefore

(***************************************************************************)
(* docs/evidence/evidence-levels.md, E5: the minimized bytes re-trigger    *)
(* the oracle, so they come from a surface whose arm broke the invariant.  *)
(***************************************************************************)
ShrinkTriggers == minimized # None => ranOn.shrinkFrom = Attack

=============================================================================
