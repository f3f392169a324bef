------------------------ MODULE DeclaredCampaignTypes -------------------------
(* Type correctness of DeclaredCampaign, for every value of its constants. *)
EXTENDS DeclaredCampaign, SequenceTheorems, TLAPS

\* StateFor only produces final campaign states.
LEMMA VerdictType == Verdict \in FinalStates
  BY DEF Verdict, StateFor, FinalStates

\* What write_certificate puts together inside a run is a certificate.
LEMMA CertificateType ==
  ASSUME TypeOK, pc # "idle" PROVE NewCertificate \in Certificates
<1>1. Measured \in Measurements
  BY DEF TypeOK, FlagsTypeOK, Measured, Measurements
<1>2. Level \in Levels
  BY DEF Level, RawLevel, Levels, Judgement, Overall, Attack, Holds, Indeterminate
<1>3. Met \in BOOLEAN /\ Verified \in BOOLEAN
  BY DEF Met, SatisfiesRequired, Verified
<1>4. spec.contained \in BOOLEAN
  BY SpecsAssumption DEF Valid, TypeOK, InputsTypeOK
<1>5. (spec.contained /\ original = afterAll /\ Met) \in BOOLEAN
  OBVIOUS
<1> QED
  BY <1>1, <1>2, <1>3, <1>4, <1>5, VerdictType
     DEF TypeOK, ControlTypeOK, InputsTypeOK, ArmsTypeOK, LedgerTypeOK, NewCertificate, Certificates

\* A fresh work directory is well typed.
LEMMA TypeInit == Init => TypeOK
<1> SUFFICES ASSUME Init PROVE TypeOK OBVIOUS
<1>1. EmptyTree \in Trees
  BY DEF EmptyTree, Trees
<1>2. ControlTypeOK /\ EnvTypeOK
  BY BoundsAssumption DEF Init, ControlTypeOK, EnvTypeOK, Labels, Runs
<1>3. InputsTypeOK /\ LedgerTypeOK
  BY <1>1 DEF Init, InputsTypeOK, LedgerTypeOK
<1>4a. ArmsTypeOK
  BY <1>1 DEF Init, ArmsTypeOK, NothingRun, Judgements
<1>4b. FlagsTypeOK
  BY Zenon DEF Init, FlagsTypeOK
<1>5. StoreTypeOK
  BY DEF Init, StoreTypeOK
<1>6a. OutputsTypeOK
  BY BoundsAssumption DEF Init, OutputsTypeOK
<1>6b. CopiesTypeOK
  BY <1>1 DEF Init, CopiesTypeOK
<1> QED BY <1>2, <1>3, <1>4a, <1>4b, <1>5, <1>6a, <1>6b DEF TypeOK


-----------------------------------------------------------------------------
(* Type correctness *)

\* The empty work subdirectory is a tree.
LEMMA EmptyTreeType == EmptyTree \in Trees
  BY DEF EmptyTree, Trees

\* The history of a run that has executed no arm is well typed.
LEMMA NothingRunType ==
  NothingRun \in [replica : Trees, replicaJudged : Seq(Judgements),
                  twin : Trees, shrinkFrom : Judgements]
  BY EmptyTreeType DEF NothingRun, Judgements

\* A ledger event of any kind about any artifact is an event.
LEMMA EventType ==
  ASSUME NEW kind \in EventKinds, NEW artifact \in Artifacts
  PROVE  Event(kind, artifact) \in Events
  BY DEF Event, Events

\* So is the CertificateIssued event.
LEMMA IssuedType ==
  ASSUME NEW contained \in BOOLEAN, NEW unmodified \in BOOLEAN
  PROVE  Issued(contained, unmodified) \in Events
  BY DEF Issued, Events, EventKinds, Artifacts

\* What a step leaves alone keeps its type.
LEMMA Frames ==
  /\ EnvTypeOK /\ UNCHANGED env => EnvTypeOK'
  /\ InputsTypeOK /\ UNCHANGED inputs /\ pc # "idle" => InputsTypeOK'
  /\ LedgerTypeOK /\ UNCHANGED ledger => LedgerTypeOK'
  /\ ArmsTypeOK /\ UNCHANGED arms => ArmsTypeOK'
  /\ FlagsTypeOK /\ UNCHANGED <<flags, regressionFile>> => FlagsTypeOK'
  /\ StoreTypeOK /\ UNCHANGED store => StoreTypeOK'
  /\ OutputsTypeOK /\ UNCHANGED <<certificate, report, minimizedBin>> => OutputsTypeOK'
  /\ CopiesTypeOK /\ UNCHANGED copies => CopiesTypeOK'
<1>1. EnvTypeOK /\ UNCHANGED env => EnvTypeOK'
  BY DEF EnvTypeOK, env
<1>2. InputsTypeOK /\ UNCHANGED inputs /\ pc # "idle" => InputsTypeOK'
  BY DEF InputsTypeOK, inputs
<1>3. LedgerTypeOK /\ UNCHANGED ledger => LedgerTypeOK'
  BY DEF LedgerTypeOK
<1>4. ArmsTypeOK /\ UNCHANGED arms => ArmsTypeOK'
  BY DEF ArmsTypeOK, arms
<1>5. FlagsTypeOK /\ UNCHANGED <<flags, regressionFile>> => FlagsTypeOK'
  BY DEF FlagsTypeOK, flags
<1>6. StoreTypeOK /\ UNCHANGED store => StoreTypeOK'
  BY DEF StoreTypeOK, store
<1>7. OutputsTypeOK /\ UNCHANGED <<certificate, report, minimizedBin>> => OutputsTypeOK'
  BY DEF OutputsTypeOK
<1>8. CopiesTypeOK /\ UNCHANGED copies => CopiesTypeOK'
  BY DEF CopiesTypeOK, copies
<1> QED BY <1>1, <1>2, <1>3, <1>4, <1>5, <1>6, <1>7, <1>8

\* Going on to another label keeps the control state typed.
LEMMA GotoType ==
  ASSUME ControlTypeOK, pc # "idle", NEW label \in Labels, Goto(label)
  PROVE  ControlTypeOK'
  BY DEF ControlTypeOK, Goto

\* Returning, with either result, leaves the run's memory well typed.
LEMMA ReturnType ==
  ASSUME TypeOK, pc # "idle", NEW how \in {"ok", "err"}, Return(how), UNCHANGED regressionFile
  PROVE  /\ ControlTypeOK' /\ InputsTypeOK' /\ LedgerTypeOK' /\ ArmsTypeOK' /\ FlagsTypeOK'
<1>1. ControlTypeOK'
  BY DEF TypeOK, ControlTypeOK, Return, Labels
<1>2. InputsTypeOK' /\ LedgerTypeOK'
  BY EmptyTreeType DEF InputsTypeOK, LedgerTypeOK, Return
<1>3. ArmsTypeOK'
  BY NothingRunType DEF ArmsTypeOK, Return
<1>4. FlagsTypeOK'
  BY Zenon DEF TypeOK, FlagsTypeOK, Return
<1> QED BY <1>1, <1>2, <1>3, <1>4

\* fail_closed_no_evidence keeps the store typed whichever of its writes succeed.
LEMMA FailClosedType ==
  ASSUME TypeOK, pc # "idle", NEW category \in {"ToolGap", "VerificationFailure"},
         NEW events \in Seq(Events), FailClosed(category, events),
         UNCHANGED <<env, outputs, copies>>
  PROVE  TypeOK'
<1>1. StoreTypeOK'
  <2>1. PICK saved \in SUBSET {"card", "row", "ledger"} :
          /\ cards' = IF "card" \in saved THEN cards \cup {<<cid, category>>} ELSE cards
          /\ campaigns' = IF "row" \in saved
                          THEN [campaigns EXCEPT ![cid] = "InsufficientEvidence"]
                          ELSE campaigns
          /\ ledgers' = IF "ledger" \in saved
                        THEN [ledgers EXCEPT ![cid] = events] ELSE ledgers
    BY DEF FailClosed
  <2>2. cid \in Runs
    BY DEF TypeOK, ControlTypeOK
  <2>3. cards' \in SUBSET (Runs \X {"ToolGap", "VerificationFailure"})
    BY <2>1, <2>2 DEF TypeOK, StoreTypeOK
  <2>4. campaigns' \in [Runs -> FinalStates \cup {None}]
    BY Zenon, <2>1 DEF TypeOK, StoreTypeOK, FinalStates
  <2>5. ledgers' \in [Runs -> Seq(Events)]
    BY Zenon, <2>1 DEF TypeOK, StoreTypeOK
  <2> QED BY <2>3, <2>4, <2>5 DEF FailClosed, TypeOK, StoreTypeOK
<1>2. Return("err") /\ UNCHANGED regressionFile
  BY DEF FailClosed, outputs
<1>3. EnvTypeOK' /\ OutputsTypeOK' /\ CopiesTypeOK'
  BY Frames DEF TypeOK, outputs
<1> QED BY <1>1, <1>2, <1>3, ReturnType DEF TypeOK

\* Whole and partial copies, and what an arm leaves behind, are trees.
LEMMA CopyTypes ==
  ASSUME NEW src \in Trees, NEW dst \in Trees
  PROVE  /\ CopySourceTree(src, dst) \in Trees
         /\ PartialCopies(src, dst) \subseteq Trees
         /\ Leftovers(dst) \subseteq Trees
<1>1. CopySourceTree(src, dst) \in Trees
  BY DEF CopySourceTree, Trees
<1>2. PartialCopies(src, dst) \subseteq Trees
  BY <1>1 DEF PartialCopies, Trees
<1>3. Leftovers(dst) \subseteq Trees
  BY DEF Leftovers, Trees
<1> QED BY <1>1, <1>2, <1>3

\* A function on 1 .. n is a sequence (the replica's judgements).
LEMMA SeqOfFunction ==
  ASSUME NEW S, NEW n \in Nat, NEW f \in [1 .. n -> S] PROVE f \in Seq(S)
  BY SeqDef

\* evaluate_oracle returns one of the three judgements.
LEMMA OutcomeType == \A oracle : Outcomes(oracle) \subseteq Judgements
  BY Zenon DEF Outcomes, EvaluateOracle, Judgements

\* Memory as its four groups.
LEMMA MemoryFrame ==
  UNCHANGED memory => UNCHANGED inputs /\ UNCHANGED ledger /\ UNCHANGED arms /\ UNCHANGED flags
  BY DEF memory

\* Both structural control arms keep every type.
LEMMA ControlArmType ==
  ASSUME TypeOK, pc # "idle", NEW wanted, NEW next \in Labels, ControlArm(wanted, next)
  PROVE  TypeOK'
<1>1. CASE Goto(next) /\ UNCHANGED <<memory, store>>
  <2>1. ControlTypeOK'
    BY <1>1, GotoType DEF TypeOK
  <2> QED BY <1>1, <2>1, Frames, MemoryFrame DEF ControlArm, TypeOK, outputs
<1>2. CASE FailClosed("ToolGap", ledger)
  BY <1>2, FailClosedType DEF ControlArm, TypeOK, LedgerTypeOK
<1> QED BY <1>1, <1>2 DEF ControlArm

\* One iteration of the surface loop keeps every type.
LEMMA AttackPlanType == ASSUME TypeOK, AttackPlan PROVE TypeOK'
<1> DEFINE i == Len(judged) + 1
           observed == Append(ledger, Event("ObservationRecorded", None))
<1>1. observed \in Seq(Events)
  BY EventType DEF TypeOK, LedgerTypeOK, EventKinds, Artifacts
<1>2. PICK j \in Outcomes(spec.oracle[spec.plans[i]]), proof \in Payloads \cup {None} :
        IF j = Indeterminate THEN FailClosed("VerificationFailure", observed)
        ELSE /\ ledger' = observed
             /\ judged' = Append(judged, j)
             /\ shrink' = IF proof # None THEN proof ELSE shrink
             /\ ranOn' = IF proof # None THEN [ranOn EXCEPT !.shrinkFrom = j] ELSE ranOn
             /\ Goto(IF i = Len(spec.plans) THEN "judge" ELSE "attack")
             /\ UNCHANGED <<inputs, minimized, flags, store>>
  BY DEF AttackPlan
<1>3. UNCHANGED <<env, outputs, copies>> /\ pc # "idle"
  BY DEF AttackPlan
<1>4. CASE j = Indeterminate
  BY Zenon, <1>1, <1>2, <1>3, <1>4, FailClosedType
<1>5. CASE j # Indeterminate
  <2>1. j \in Judgements
    BY OutcomeType
  <2>2. ArmsTypeOK'
    <3>1. judged' \in Seq(Judgements)
      BY SMTT(30), <1>2, <1>5, <2>1 DEF TypeOK, ArmsTypeOK
    <3>2. shrink' \in Payloads \cup {None} /\ minimized' = minimized
      BY <1>2, <1>5 DEF TypeOK, ArmsTypeOK
    <3>3. ranOn' = ranOn \/ ranOn' = [ranOn EXCEPT !.shrinkFrom = j]
      BY <1>2, <1>5
    <3> QED BY <2>1, <3>1, <3>2, <3>3 DEF TypeOK, ArmsTypeOK
  <2>3. ControlTypeOK'
    BY <1>2, <1>3, <1>5, GotoType DEF TypeOK, Labels
  <2>4. LedgerTypeOK'
    BY <1>1, <1>2, <1>5 DEF LedgerTypeOK
  <2> QED BY <1>2, <1>3, <1>5, <2>2, <2>3, <2>4, Frames DEF TypeOK, outputs
<1> QED BY <1>4, <1>5

\* The ledger with the accepted claim and CertificateIssued is a ledger.
LEMMA PersistedType ==
  ASSUME TypeOK, pc # "idle",
         NEW claim \in {<< >>, <<Event("AssumptionCreated", None)>>}
  PROVE  /\ ledger \o claim \in Seq(Events)
         /\ Append(ledger \o claim, Issued(spec.contained, original = afterAll)) \in Seq(Events)
<1>1. claim \in Seq(Events)
  <2>1. Event("AssumptionCreated", None) \in Events
    BY EventType DEF EventKinds, Artifacts
  <2>2. <<Event("AssumptionCreated", None)>> \in Seq(Events)
    BY <2>1
  <2>3. << >> \in Seq(Events)
    OBVIOUS
  <2> QED BY Zenon, <2>2, <2>3
<1>2. ledger \o claim \in Seq(Events)
  BY <1>1 DEF TypeOK, LedgerTypeOK
<1>3. spec.contained \in BOOLEAN
  BY SpecsAssumption DEF Valid, TypeOK, InputsTypeOK
<1>4. Issued(spec.contained, original = afterAll) \in Events
  BY Zenon, <1>3, IssuedType
<1> QED BY <1>2, <1>4

\* Every step keeps every type.
LEMMA TypeNext == ASSUME TypeOK, [Next]_vars PROVE TypeOK'
<1>1. CASE StartRun
  <2>1. ControlTypeOK'
    BY <1>1, BoundsAssumption DEF StartRun, TypeOK, ControlTypeOK, Labels, Runs
  <2>2. InputsTypeOK'
    BY <1>1 DEF StartRun, TypeOK, InputsTypeOK, EnvTypeOK
  <2>3. LedgerTypeOK'
    BY <1>1, EventType DEF StartRun, TypeOK, LedgerTypeOK, EnvTypeOK, EventKinds, Artifacts
  <2> QED BY <1>1, <2>1, <2>2, <2>3, Frames DEF StartRun, TypeOK, outputs
<1>2. CASE EnvironmentMismatch
  <2>1. ControlTypeOK'
    BY <1>2, GotoType DEF EnvironmentMismatch, TypeOK, Labels
  <2>2. StoreTypeOK'
    BY Zenon, <1>2 DEF EnvironmentMismatch, TypeOK, StoreTypeOK, FinalStates
  <2> QED BY <1>2, <2>1, <2>2, Frames, MemoryFrame DEF EnvironmentMismatch, TypeOK, outputs
<1>3. CASE MismatchLedger
  <2>1. ControlTypeOK'
    BY <1>3, GotoType DEF MismatchLedger, TypeOK, Labels
  <2>2. StoreTypeOK'
    BY Zenon, <1>3 DEF MismatchLedger, TypeOK, StoreTypeOK, LedgerTypeOK
  <2> QED BY <1>3, <2>1, <2>2, Frames, MemoryFrame DEF MismatchLedger, TypeOK, outputs
<1>4. CASE MismatchReport
  <2>1. OutputsTypeOK'
    BY <1>4 DEF MismatchReport, TypeOK, OutputsTypeOK, ControlTypeOK, Runs
  <2> QED BY <1>4, <2>1, Frames, ReturnType DEF MismatchReport, TypeOK, outputs
<1>5. CASE EnvironmentMatches
  <2>1. ControlTypeOK'
    BY <1>5, GotoType DEF EnvironmentMatches, TypeOK, Labels
  <2> QED BY <1>5, <2>1, Frames, MemoryFrame DEF EnvironmentMatches, TypeOK, outputs
<1>6. CASE ArchiveHarnesses
  <2>1. ControlTypeOK'
    BY <1>6, GotoType DEF ArchiveHarnesses, TypeOK, Labels
  <2>2. InputsTypeOK'
    BY <1>6 DEF ArchiveHarnesses, TypeOK, InputsTypeOK
  <2>3. LedgerTypeOK'
    BY <1>6, EventType DEF ArchiveHarnesses, TypeOK, LedgerTypeOK, EventKinds, Artifacts
  <2> QED BY <1>6, <2>1, <2>2, <2>3, Frames DEF ArchiveHarnesses, TypeOK, outputs
<1>7. CASE GoodArm
  <2> QED BY <1>7, ControlArmType DEF GoodArm, TypeOK, Labels, LedgerTypeOK
<1>8. CASE MutantArm
  <2> QED BY <1>8, ControlArmType DEF MutantArm, TypeOK, Labels, LedgerTypeOK
<1>9. CASE MissingGenerator
  <2> QED BY <1>9, FailClosedType DEF MissingGenerator, TypeOK, LedgerTypeOK
<1>10. CASE AttackPlan
  BY <1>10, AttackPlanType
<1>11. CASE JudgeAttack
  <2>1. ControlTypeOK'
    BY <1>11, GotoType DEF JudgeAttack, TypeOK, Labels
  <2>2. ArmsTypeOK'
    BY <1>11 DEF JudgeAttack, TypeOK, ArmsTypeOK
  <2>3. shrink # None => Event("EvidenceCreated", shrink) \in Events
    BY <1>11, EventType DEF JudgeAttack, TypeOK, ArmsTypeOK, EventKinds, Artifacts
  <2>4. LedgerTypeOK'
    BY <1>11, <2>3 DEF JudgeAttack, TypeOK, LedgerTypeOK
  <2>5. OutputsTypeOK'
    BY <1>11 DEF JudgeAttack, TypeOK, OutputsTypeOK, ArmsTypeOK
  <2> QED BY <1>11, <2>1, <2>2, <2>3, <2>4, <2>5, Frames DEF JudgeAttack, TypeOK, outputs
<1>12. CASE CopyReplica
  <2>1. ControlTypeOK'
    BY <1>12, GotoType DEF CopyReplica, TypeOK, Labels
  <2>2. CopiesTypeOK'
    BY <1>12, CopyTypes DEF CopyReplica, TypeOK, CopiesTypeOK, EnvTypeOK
  <2> QED BY <1>12, <2>1, <2>2, Frames, MemoryFrame DEF CopyReplica, TypeOK, outputs
<1>13. CASE RunReplica
  <2>1. ControlTypeOK'
    BY <1>13, GotoType DEF RunReplica, TypeOK, Labels
  <2>2. CopiesTypeOK'
    BY <1>13, CopyTypes DEF RunReplica, TypeOK, CopiesTypeOK, EnvTypeOK
  <2>3. \A f \in [1 .. Len(judged) -> Judgements] : f \in Seq(Judgements)
    BY <1>13, SeqOfFunction DEF RunReplica, TypeOK, ArmsTypeOK
  <2>4. \/ ranOn' = ranOn
       \/ \E again \in Seq(Judgements) :
            ranOn' = [ranOn EXCEPT !.replica = replicaDir, !.replicaJudged = again]
    BY Zenon, <1>13, <2>3 DEF RunReplica, TypeOK
  <2>5. ArmsTypeOK'
    BY Zenon, <1>13, <2>4 DEF RunReplica, TypeOK, ArmsTypeOK, CopiesTypeOK
  <2> QED BY Zenon, <1>13, <2>1, <2>2, <2>3, <2>4, <2>5, Frames DEF RunReplica, TypeOK, outputs
<1>14. CASE ReplicaArmFails
  <2>1. ControlTypeOK'
    BY <1>14, GotoType DEF ReplicaArmFails, TypeOK, Labels
  <2>2. CopiesTypeOK'
    BY <1>14, CopyTypes DEF ReplicaArmFails, TypeOK, CopiesTypeOK, EnvTypeOK
  <2> QED BY <1>14, <2>1, <2>2, Frames, MemoryFrame DEF ReplicaArmFails, TypeOK, outputs
<1>15. CASE CheckOriginal
  <2>1. ControlTypeOK'
    BY <1>15, GotoType DEF CheckOriginal, TypeOK, Labels
  <2>2. FlagsTypeOK'
    BY Zenon, <1>15 DEF CheckOriginal, TypeOK, FlagsTypeOK, outputs
  <2> QED BY <1>15, <2>1, <2>2, Frames DEF CheckOriginal, TypeOK, outputs
<1>16. CASE NoTwin
  <2>1. ControlTypeOK'
    BY <1>16, GotoType DEF NoTwin, TypeOK, Labels
  <2> QED BY <1>16, <2>1, Frames, MemoryFrame DEF NoTwin, TypeOK, outputs
<1>17. CASE CopyTwin
  <2>1. ControlTypeOK'
    BY <1>17, GotoType DEF CopyTwin, TypeOK, Labels
  <2>2. InputsTypeOK'
    BY <1>17 DEF CopyTwin, TypeOK, InputsTypeOK, EnvTypeOK
  <2>3. CopiesTypeOK'
    BY <1>17, CopyTypes DEF CopyTwin, TypeOK, CopiesTypeOK, EnvTypeOK
  <2> QED BY <1>17, <2>1, <2>2, <2>3, Frames DEF CopyTwin, TypeOK, outputs
<1>18. CASE RunTwin
  <2>1. ControlTypeOK'
    BY <1>18, GotoType DEF RunTwin, TypeOK, Labels
  <2>2. CopiesTypeOK'
    BY <1>18, CopyTypes DEF RunTwin, TypeOK, CopiesTypeOK, EnvTypeOK
  <2>3. ArmsTypeOK'
    BY <1>18 DEF RunTwin, TypeOK, ArmsTypeOK, CopiesTypeOK
  <2> QED BY <1>18, <2>1, <2>2, <2>3, Frames DEF RunTwin, TypeOK, outputs
<1>19. CASE CheckTwin
  <2>1. ControlTypeOK'
    BY <1>19, GotoType DEF CheckTwin, TypeOK, Labels
  <2>2. FlagsTypeOK'
    BY Zenon, <1>19 DEF CheckTwin, TypeOK, FlagsTypeOK, outputs
  <2> QED BY <1>19, <2>1, <2>2, Frames DEF CheckTwin, TypeOK, outputs
<1>20. CASE TryE7
  <2>1. ControlTypeOK'
    BY <1>20, GotoType DEF TryE7, TypeOK, Labels
  <2>2. FlagsTypeOK'
    BY <1>20 DEF TryE7, TypeOK, FlagsTypeOK
  <2>3. CopiesTypeOK'
    BY <1>20, CopyTypes DEF TryE7, TypeOK, CopiesTypeOK, EnvTypeOK
  <2> QED BY <1>20, <2>1, <2>2, <2>3, Frames DEF TryE7, TypeOK, outputs
<1>21. CASE SkipE7
  <2>1. ControlTypeOK'
    BY <1>21, GotoType DEF SkipE7, TypeOK, Labels
  <2> QED BY <1>21, <2>1, Frames, MemoryFrame DEF SkipE7, TypeOK, outputs
<1>22. CASE SnapshotAll
  <2>1. ControlTypeOK'
    BY <1>22, GotoType DEF SnapshotAll, TypeOK, Labels
  <2>2. InputsTypeOK'
    BY <1>22 DEF SnapshotAll, TypeOK, InputsTypeOK, EnvTypeOK
  <2>3. FlagsTypeOK'
    BY <1>22 DEF SnapshotAll, TypeOK, FlagsTypeOK, outputs
  <2> QED BY <1>22, <2>1, <2>2, <2>3, Frames DEF SnapshotAll, TypeOK, outputs
<1>23. CASE Conclude
  <2>1. ControlTypeOK'
    BY <1>23, GotoType DEF Conclude, TypeOK, Labels
  <2>2. StoreTypeOK'
    BY Zenon, <1>23, VerdictType DEF Conclude, TypeOK, StoreTypeOK
  <2>3. LedgerTypeOK'
    BY <1>23, EventType DEF Conclude, TypeOK, LedgerTypeOK, EventKinds, Artifacts
  <2> QED BY <1>23, <2>1, <2>2, <2>3, Frames DEF Conclude, TypeOK, outputs
<1>24. CASE PersistLedger
  <2>1. ControlTypeOK'
    BY <1>24, GotoType DEF PersistLedger, TypeOK, Labels
  <2>2. LedgerTypeOK'
    BY Zenon, <1>24, PersistedType DEF PersistLedger, TypeOK, LedgerTypeOK
  <2>3. StoreTypeOK'
    BY Zenon, <1>24, <2>2 DEF PersistLedger, TypeOK, StoreTypeOK, LedgerTypeOK
  <2> QED BY <1>24, <2>1, <2>2, <2>3, Frames DEF PersistLedger, TypeOK, outputs
<1>25. CASE PersistGraph
  <2>1. ControlTypeOK'
    BY <1>25, GotoType DEF PersistGraph, TypeOK, Labels
  <2>2. StoreTypeOK'
    BY Zenon, <1>25 DEF PersistGraph, TypeOK, StoreTypeOK, ConclusionState, Conclusions
  <2> QED BY <1>25, <2>1, <2>2, Frames, MemoryFrame DEF PersistGraph, TypeOK, outputs
<1>26. CASE RefuseCertificate
  <2> QED BY <1>26, Frames, ReturnType DEF RefuseCertificate, TypeOK, outputs
<1>27. CASE OpenCertificate
  <2>1. ControlTypeOK'
    BY <1>27, GotoType DEF OpenCertificate, TypeOK, Labels
  <2>2. OutputsTypeOK'
    BY <1>27 DEF OpenCertificate, TypeOK, OutputsTypeOK
  <2> QED BY <1>27, <2>1, <2>2, Frames, MemoryFrame DEF OpenCertificate, TypeOK, outputs
<1>28. CASE WriteCertificate
  <2>1. ControlTypeOK'
    BY <1>28, GotoType DEF WriteCertificate, TypeOK, Labels
  <2>2. OutputsTypeOK'
    BY <1>28, CertificateType DEF WriteCertificate, TypeOK, OutputsTypeOK
  <2> QED BY <1>28, <2>1, <2>2, Frames, MemoryFrame DEF WriteCertificate, TypeOK, outputs
<1>29. CASE WriteReport
  <2>1. OutputsTypeOK'
    BY <1>29 DEF WriteReport, TypeOK, OutputsTypeOK, ControlTypeOK, Runs
  <2> QED BY <1>29, <2>1, Frames, ReturnType DEF WriteReport, TypeOK, outputs
<1>30. CASE Abort
  <2> QED BY <1>30, Frames, ReturnType DEF Abort, TypeOK, outputs
<1>31. CASE Drift
  <2>1. ControlTypeOK'
    BY <1>31 DEF Drift, TypeOK, ControlTypeOK
  <2>2. EnvTypeOK'
    BY <1>31, BoundsAssumption DEF Drift, TypeOK, EnvTypeOK
  <2>3. InputsTypeOK'
    BY <1>31, MemoryFrame DEF Drift, TypeOK, InputsTypeOK, inputs
  <2> QED BY <1>31, <2>1, <2>2, <2>3, Frames, MemoryFrame DEF Drift, TypeOK, outputs
<1>32. CASE UNCHANGED vars
  <2>1. ControlTypeOK' /\ InputsTypeOK'
    BY <1>32, MemoryFrame DEF vars, TypeOK, ControlTypeOK, InputsTypeOK, inputs
  <2> QED BY <1>32, <2>1, Frames, MemoryFrame DEF vars, TypeOK, outputs
<1> QED
  BY <1>1, <1>2, <1>3, <1>4, <1>5, <1>6, <1>7, <1>8, <1>9, <1>10, <1>11, <1>12, <1>13, <1>14, <1>15, <1>16, <1>17, <1>18, <1>19, <1>20, <1>21, <1>22, <1>23, <1>24, <1>25, <1>26, <1>27, <1>28, <1>29, <1>30, <1>31, <1>32 DEF Next, RunStep, Finished

(***************************************************************************)
(* Every reachable state is well typed: in particular only a verdict ever  *)
(* reaches the campaign table, and a certificate is always complete.       *)
(***************************************************************************)
THEOREM TypeCorrect == Spec => []TypeOK
<1>1. Init => TypeOK
  BY TypeInit
<1>2. TypeOK /\ [Next]_vars => TypeOK'
  BY TypeNext
<1> QED BY <1>1, <1>2, PTL DEF Spec
=============================================================================
