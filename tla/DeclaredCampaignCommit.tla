------------------------ MODULE DeclaredCampaignCommit ------------------------
(***************************************************************************)
(* The commit order of a declared run: the inductive invariant that says   *)
(* what row, ledger, graph and certificate hold at each label.  A step is  *)
(* first sorted into one of a few shapes; each conjunct of the invariant   *)
(* is then carried through the shapes.                                     *)
(***************************************************************************)
EXTENDS DeclaredCampaignTypes

\* The ledger in memory stays or gets an event that is no CertificateIssued, and
\* the harness digest, if it is new, is in that event.
Grows ==
  \/ ledger' = ledger /\ harness' \in {harness, None}
  \/ \E e \in Events : /\ e.kind # "CertificateIssued"
                       /\ ledger' = Append(ledger, e)
                       /\ harness' \in {harness, e.artifact}

\* A step of the run that stores nothing.
Quiet ==
  /\ pc \in Running /\ pc' \in Running
  /\ UNCHANGED <<cid, store, certificate>>
  /\ Grows

\* fail_closed_no_evidence, with the ledger as it is or one observation longer.
Closes ==
  /\ pc \in Running /\ UNCHANGED certificate
  /\ \E category, events :
       /\ FailClosed(category, events)
       /\ events \in {ledger, Append(ledger, Event("ObservationRecorded", None))}

\* The run is over; what it stored stays.
Ends == pc # "idle" /\ (\E how : Return(how)) /\ UNCHANGED <<store, certificate>>

Aside == UNCHANGED <<pc, cid, memory, store, certificate>>

\* What a step can be, as far as the commit order is concerned.
Shapes ==
  \/ StartRun \/ Quiet \/ Closes \/ Ends \/ Aside
  \/ EnvironmentMismatch \/ MismatchLedger \/ Conclude \/ PersistLedger
  \/ PersistGraph \/ OpenCertificate \/ WriteCertificate

\* The labels of a run before its verdict, one by one.
LEMMA RunningLabels ==
  Running = {"environment", "archive", "good", "mutant", "attack", "judge", "copyReplica",
             "runReplica", "checkOriginal", "copyTwin", "runTwin", "checkTwin", "tryE7",
             "snapshotAll", "conclude"}
  BY DEF Running, Labels, Committing, Mismatching

\* A control arm either goes on or fails closed.
LEMMA ControlArmShape ==
  ASSUME NEW wanted, NEW next \in Running, pc \in Running, ControlArm(wanted, next)
  PROVE  Quiet \/ Closes
<1>1. UNCHANGED certificate
  BY DEF ControlArm, outputs
<1>2. CASE Goto(next) /\ UNCHANGED <<memory, store>>
  BY <1>1, <1>2 DEF Quiet, Grows, Goto, memory, inputs
<1>3. CASE FailClosed("ToolGap", ledger)
  BY <1>1, <1>3 DEF Closes
<1> QED BY <1>2, <1>3 DEF ControlArm

\* Every step has one of the shapes.
LEMMA StepShape == ASSUME TypeOK, [Next]_vars PROVE Shapes
<1> USE RunningLabels
<1>1. CASE EnvironmentMatches
  BY <1>1 DEF EnvironmentMatches, Shapes, Quiet, Grows, Goto, outputs, memory, inputs
<1>2. CASE CopyReplica
  BY <1>2 DEF CopyReplica, Shapes, Quiet, Grows, Goto, outputs, memory, inputs
<1>3. CASE RunReplica
  BY <1>3 DEF RunReplica, Shapes, Quiet, Grows, Goto, outputs, memory, inputs
<1>4. CASE ReplicaArmFails
  BY <1>4 DEF ReplicaArmFails, Shapes, Quiet, Grows, Goto, outputs, memory, inputs
<1>5. CASE CheckOriginal
  BY <1>5 DEF CheckOriginal, Shapes, Quiet, Grows, Goto, outputs, memory, inputs
<1>6. CASE NoTwin
  BY <1>6 DEF NoTwin, Shapes, Quiet, Grows, Goto, outputs, memory, inputs
<1>7. CASE CopyTwin
  BY <1>7 DEF CopyTwin, Shapes, Quiet, Grows, Goto, outputs, memory, inputs
<1>8. CASE RunTwin
  BY <1>8 DEF RunTwin, Shapes, Quiet, Grows, Goto, outputs, memory, inputs
<1>9. CASE CheckTwin
  BY <1>9 DEF CheckTwin, Shapes, Quiet, Grows, Goto, outputs, memory, inputs
<1>10. CASE TryE7
  BY <1>10 DEF TryE7, Shapes, Quiet, Grows, Goto, outputs, memory, inputs
<1>11. CASE SkipE7
  BY <1>11 DEF SkipE7, Shapes, Quiet, Grows, Goto, outputs, memory, inputs
<1>12. CASE SnapshotAll
  BY <1>12 DEF SnapshotAll, Shapes, Quiet, Grows, Goto, outputs, memory, inputs
<1>13. CASE GoodArm
  BY <1>13, ControlArmShape DEF GoodArm, Shapes
<1>14. CASE MutantArm
  BY <1>14, ControlArmShape DEF MutantArm, Shapes
<1>15. CASE ArchiveHarnesses
  <2>1. pc \in Running /\ pc' \in Running /\ UNCHANGED <<cid, store, certificate>>
    BY <1>15 DEF ArchiveHarnesses, Goto, outputs
  <2>2. PICK h \in Harnesses \cup {None} :
          /\ harness' = h
          /\ ledger' = IF h = None THEN ledger ELSE Append(ledger, Event("EvidenceCreated", h))
    BY <1>15 DEF ArchiveHarnesses
  <2>3. Event("EvidenceCreated", h) \in Events
    BY EventType DEF EventKinds, Artifacts
  <2>4. Grows
    BY <2>2, <2>3 DEF Grows, Event
  <2> QED BY <2>1, <2>4 DEF Shapes, Quiet
<1>16. CASE JudgeAttack
  <2>1. pc \in Running /\ pc' \in Running /\ UNCHANGED <<cid, store, certificate, harness>>
    BY <1>16 DEF JudgeAttack, Goto, inputs
  <2>2. ledger' \in {ledger, Append(ledger, Event("EvidenceCreated", shrink))}
    BY <1>16 DEF JudgeAttack
  <2>3. Event("EvidenceCreated", shrink) \in Events
    BY EventType DEF EventKinds, Artifacts, TypeOK, ArmsTypeOK
  <2>4. Grows
    BY <2>1, <2>2, <2>3 DEF Grows, Event
  <2> QED BY <2>1, <2>4 DEF Shapes, Quiet
<1>17. CASE MissingGenerator
  BY <1>17 DEF MissingGenerator, Shapes, Closes, outputs
<1>18. CASE AttackPlan
  <2> DEFINE observed == Append(ledger, Event("ObservationRecorded", None))
  <2>1. UNCHANGED certificate /\ pc \in Running
    BY <1>18 DEF AttackPlan, outputs
  <2>2. \/ FailClosed("VerificationFailure", observed)
        \/ (Goto("judge") \/ Goto("attack")) /\ UNCHANGED store
    BY <1>18 DEF AttackPlan
  <2>3. CASE FailClosed("VerificationFailure", observed)
    BY Zenon, <2>1, <2>3 DEF Shapes, Closes
  <2>4. CASE (Goto("judge") \/ Goto("attack")) /\ UNCHANGED store
    <3>1. Event("ObservationRecorded", None) \in Events
      BY EventType DEF EventKinds, Artifacts
    <3>2. ledger' = observed /\ harness' = harness
      BY <1>18, <2>4 DEF AttackPlan, FailClosed, Return, Goto, inputs
    <3>3. Grows
      BY <3>1, <3>2 DEF Grows, Event
    <3> QED BY <2>1, <2>4, <3>3 DEF Shapes, Quiet, Goto
  <2> QED BY <2>2, <2>3, <2>4
<1>19. CASE MismatchReport
  BY <1>19 DEF MismatchReport, Shapes, Ends, outputs
<1>20. CASE RefuseCertificate
  BY <1>20 DEF RefuseCertificate, Shapes, Ends, outputs
<1>21. CASE WriteReport
  BY <1>21 DEF WriteReport, Shapes, Ends, outputs
<1>22. CASE Abort
  BY <1>22 DEF Abort, Shapes, Ends, outputs
<1>23. CASE Drift \/ Finished \/ UNCHANGED vars
  BY <1>23 DEF Drift, Finished, vars, Shapes, Aside, outputs
<1> QED
  BY Zenon, <1>1, <1>2, <1>3, <1>4, <1>5, <1>6, <1>7, <1>8, <1>9, <1>10, <1>11, <1>12, <1>13, <1>14, <1>15, <1>16, <1>17, <1>18, <1>19, <1>20, <1>21, <1>22, <1>23 DEF Next, RunStep, Shapes

\* A step stores only under the current campaign's id, and a new run's id is new.
LEMMA OwnRowsOnly ==
  ASSUME TypeOK, [Next]_vars
  PROVE  /\ cid' \in {cid, cid + 1}
         /\ \A c \in Runs : c # cid => /\ campaigns'[c] = campaigns[c]
                                      /\ ledgers'[c] = ledgers[c]
                                      /\ graphs'[c] = graphs[c]
<1> USE DEF TypeOK, StoreTypeOK
<1>1. Shapes
  BY StepShape
<1>2. CASE StartRun
  BY <1>2 DEF StartRun, store
<1>3. CASE Quiet \/ Aside
  BY <1>3 DEF Quiet, Aside, store
<1>4. CASE Closes
  BY <1>4 DEF Closes, FailClosed, Return
<1>5. CASE Ends
  BY <1>5 DEF Ends, Return, store
<1>6. CASE EnvironmentMismatch \/ MismatchLedger
  BY <1>6 DEF EnvironmentMismatch, MismatchLedger, Goto
<1>7. CASE Conclude \/ PersistLedger \/ PersistGraph
  BY <1>7 DEF Conclude, PersistLedger, PersistGraph, Goto
<1>8. CASE OpenCertificate \/ WriteCertificate
  BY <1>8 DEF OpenCertificate, WriteCertificate, Goto, store
<1> QED BY <1>1, <1>2, <1>3, <1>4, <1>5, <1>6, <1>7, <1>8 DEF Shapes

\* No step stores anything under an id that has not been minted.
LEMMA FreshIdsNext == ASSUME TypeOK, FreshIds, [Next]_vars PROVE FreshIds'
  BY OwnRowsOnly, BoundsAssumption DEF TypeOK, ControlTypeOK, FreshIds, Runs

\* The verdict is a function of the run's measurements.
LEMMA VerdictFrame ==
  ASSUME UNCHANGED <<spec, judged, minimized, flags>>
  PROVE  UNCHANGED <<Judgement, Measured, Level, Met, Verdict, Verified>>
  BY Zenon DEF Judgement, Measured, Level, Met, Verdict, Verified, flags

\* The campaign row is empty before the verdict and is the verdict after it.
LEMMA RowNext ==
  ASSUME TypeOK, FreshIds, RowInv, [Next]_vars
  PROVE  RowInv'
<1> USE RunningLabels DEF Committing, Mismatching
<1>t. /\ cid \in 0 .. MaxRuns /\ (pc # "idle" => cid \in Runs)
      /\ campaigns \in [Runs -> FinalStates \cup {None}]
  BY DEF TypeOK, ControlTypeOK, StoreTypeOK
<1>1. Shapes
  BY StepShape
<1>2. CASE StartRun
  <2>1. cid + 1 \in Runs /\ cid + 1 > cid
    BY <1>2, <1>t, BoundsAssumption DEF StartRun, Runs
  <2>2. pc' = "environment" /\ cid' = cid + 1 /\ campaigns' = campaigns
    BY <1>2 DEF StartRun, store
  <2> QED BY <2>1, <2>2 DEF RowInv, FreshIds
<1>3. CASE Quiet
  BY <1>3 DEF Quiet, store, RowInv
<1>4. CASE Closes \/ Ends
  <2>1. pc' = "idle"
    BY <1>4 DEF Closes, Ends, FailClosed, Return
  <2> QED BY <2>1 DEF RowInv
<1>5. CASE Aside
  <2>1. UNCHANGED Verdict
    BY <1>5, VerdictFrame DEF Aside, memory, inputs, arms
  <2> QED BY <1>5, <2>1 DEF Aside, store, RowInv
<1>6. CASE EnvironmentMismatch
  BY <1>6, <1>t DEF EnvironmentMismatch, Goto, RowInv
<1>7. CASE MismatchLedger
  BY <1>7 DEF MismatchLedger, Goto, RowInv
<1>8. CASE Conclude
  <2>1. UNCHANGED Verdict
    BY <1>8, VerdictFrame DEF Conclude, inputs, arms
  <2> QED BY <1>8, <1>t, <2>1 DEF Conclude, Goto, RowInv
<1>9. CASE PersistLedger
  <2>1. UNCHANGED Verdict
    BY <1>9, VerdictFrame DEF PersistLedger, inputs, arms
  <2> QED BY <1>9, <2>1 DEF PersistLedger, Goto, RowInv
<1>10. CASE PersistGraph
  <2>1. UNCHANGED Verdict
    BY <1>10, VerdictFrame DEF PersistGraph, memory, inputs, arms
  <2> QED BY <1>10, <2>1 DEF PersistGraph, Goto, RowInv
<1>11. CASE OpenCertificate \/ WriteCertificate
  <2>1. UNCHANGED Verdict
    BY <1>11, VerdictFrame DEF OpenCertificate, WriteCertificate, memory, inputs, arms
  <2> QED BY <1>11, <2>1 DEF OpenCertificate, WriteCertificate, Goto, store, RowInv
<1> QED
  BY <1>1, <1>2, <1>3, <1>4, <1>5, <1>6, <1>7, <1>8, <1>9, <1>10, <1>11 DEF Shapes

\* The graph is empty before persist_graph and is the conclusion after it.
LEMMA GraphNext ==
  ASSUME TypeOK, FreshIds, GraphInv, [Next]_vars
  PROVE  GraphInv'
<1> USE RunningLabels DEF Committing, Mismatching, Logged, Graphed, Labels
<1>t. /\ cid \in 0 .. MaxRuns /\ (pc # "idle" => cid \in Runs)
      /\ graphs \in [Runs -> Conclusions \cup {None}]
  BY DEF TypeOK, ControlTypeOK, StoreTypeOK
<1>1. Shapes
  BY StepShape
<1>2. CASE StartRun
  <2>1. cid + 1 \in Runs /\ cid + 1 > cid
    BY <1>2, <1>t, BoundsAssumption DEF StartRun, Runs
  <2>2. pc' = "environment" /\ cid' = cid + 1 /\ graphs' = graphs
    BY <1>2 DEF StartRun, store
  <2> QED BY <2>1, <2>2 DEF GraphInv, FreshIds
<1>3. CASE Quiet
  BY <1>3 DEF Quiet, store, GraphInv
<1>4. CASE Closes \/ Ends
  <2>1. pc' = "idle"
    BY <1>4 DEF Closes, Ends, FailClosed, Return
  <2> QED BY <2>1 DEF GraphInv
<1>5. CASE Aside
  <2>1. UNCHANGED <<Judgement, Verified>>
    BY <1>5, VerdictFrame DEF Aside, memory, inputs, arms
  <2> QED BY <1>5, <2>1 DEF Aside, store, GraphInv
<1>6. CASE EnvironmentMismatch \/ MismatchLedger
  BY <1>6 DEF EnvironmentMismatch, MismatchLedger, Goto, GraphInv
<1>7. CASE Conclude \/ PersistLedger
  BY <1>7 DEF Conclude, PersistLedger, Goto, GraphInv
<1>8. CASE PersistGraph
  <2>1. UNCHANGED <<Judgement, Verified>>
    BY <1>8, VerdictFrame DEF PersistGraph, memory, inputs, arms
  <2> QED BY <1>8, <1>t, <2>1 DEF PersistGraph, Goto, GraphInv
<1>9. CASE OpenCertificate \/ WriteCertificate
  <2>1. UNCHANGED <<Judgement, Verified>>
    BY <1>9, VerdictFrame DEF OpenCertificate, WriteCertificate, memory, inputs, arms
  <2> QED BY <1>9, <2>1 DEF OpenCertificate, WriteCertificate, Goto, store, GraphInv
<1> QED BY <1>1, <1>2, <1>3, <1>4, <1>5, <1>6, <1>7, <1>8, <1>9 DEF Shapes

\* A whole certificate is of an earlier run or of one that has written it.
LEMMA CertificateNext ==
  ASSUME TypeOK, CertificateInv, [Next]_vars
  PROVE  CertificateInv'
<1> USE RunningLabels DEF Certified
<1>t. cid \in Nat /\ (Certified => certificate.cid \in Nat)
  <2>1. cid \in 0 .. MaxRuns /\ certificate \in Certificates \cup {None, Torn}
    BY Zenon DEF TypeOK, ControlTypeOK, OutputsTypeOK
  <2>2. certificate \in Certificates => certificate.cid \in 1 .. MaxRuns
    BY DEF Certificates, Runs
  <2> QED BY <2>1, <2>2, BoundsAssumption
<1>1. Shapes
  BY StepShape
<1>2. CASE StartRun
  BY <1>2, <1>t DEF StartRun, outputs, CertificateInv
<1>3. CASE Quiet
  BY <1>3 DEF Quiet, CertificateInv
<1>4. CASE Closes
  BY <1>4 DEF Closes, FailClosed, Return, CertificateInv
<1>5. CASE Ends
  BY <1>5 DEF Ends, Return, CertificateInv
<1>6. CASE Aside
  BY <1>6 DEF Aside, CertificateInv
<1>7. CASE EnvironmentMismatch \/ MismatchLedger \/ Conclude \/ PersistLedger \/ PersistGraph
  <2>1. UNCHANGED <<cid, certificate>> /\ pc' # "writeCertificate" /\ pc \notin {"report", "idle"}
    BY <1>7 DEF EnvironmentMismatch, MismatchLedger, Conclude, PersistLedger, PersistGraph,
                Goto, outputs
  <2> QED BY <2>1 DEF CertificateInv
<1>8. CASE OpenCertificate
  BY <1>8 DEF OpenCertificate, Goto, CertificateInv
<1>9. CASE WriteCertificate
  BY <1>9, <1>t DEF WriteCertificate, Goto, NewCertificate, CertificateInv
<1> QED BY <1>1, <1>2, <1>3, <1>4, <1>5, <1>6, <1>7, <1>8, <1>9 DEF Shapes

\* What appending to a ledger keeps and adds.
LEMMA AppendFacts ==
  ASSUME NEW s \in Seq(Events), NEW e \in Events
  PROVE  /\ Append(s, e) \in Seq(Events) /\ Append(s, e) # << >>
         /\ Append(s, e)[Len(Append(s, e))] = e
         /\ \A i \in DOMAIN s : i \in DOMAIN Append(s, e) /\ Append(s, e)[i] = s[i]
         /\ \E i \in DOMAIN Append(s, e) : Append(s, e)[i] = e
         /\ e.kind # "CertificateIssued" /\ ~Announced(s) => ~Announced(Append(s, e))
<1>1. /\ Append(s, e) \in Seq(Events) /\ Len(Append(s, e)) = Len(s) + 1
      /\ Append(s, e)[Len(s) + 1] = e
      /\ \A i \in 1 .. Len(s) : Append(s, e)[i] = s[i]
  BY AppendProperties
<1>2. Len(s) \in Nat /\ DOMAIN s = 1 .. Len(s) /\ DOMAIN Append(s, e) = 1 .. Len(s) + 1
  BY <1>1, LenProperties
<1>3. Append(s, e) # << >>
  BY <1>1, <1>2, EmptySeq
<1>4. e.kind # "CertificateIssued" /\ ~Announced(s) => ~Announced(Append(s, e))
  BY <1>1, <1>2 DEF Announced
<1>5. \E i \in DOMAIN Append(s, e) : Append(s, e)[i] = e
  <2>1. Len(s) + 1 \in DOMAIN Append(s, e)
    BY <1>2
  <2> QED BY <1>1, <2>1
<1> QED BY <1>1, <1>2, <1>3, <1>4, <1>5

\* Extending a ledger by one or two events is appending them.
LEMMA ConcatAsAppend ==
  ASSUME NEW s \in Seq(Events), NEW d \in Events, NEW e \in Events
  PROVE  s \o << >> = s /\ s \o <<d>> = Append(s, d) /\ s \o <<d, e>> = Append(Append(s, d), e)
<1>1. <<d>> \in Seq(Events) /\ <<e>> \in Seq(Events) /\ <<d, e>> = Append(<<d>>, e)
  OBVIOUS
<1>2. s \o <<d>> = Append(s, d) /\ Append(s, d) \in Seq(Events)
  BY AppendIsConcat, AppendProperties
<1>3. <<d, e>> = <<d>> \o <<e>>
  BY <1>1, AppendIsConcat
<1>4. s \o (<<d>> \o <<e>>) = (s \o <<d>>) \o <<e>>
  BY <1>1, ConcatAssociative
<1>5. Append(s, d) \o <<e>> = Append(Append(s, d), e)
  BY <1>2, AppendIsConcat
<1>6. s \o << >> = s
  BY ConcatEmptySeq
<1> QED BY <1>2, <1>3, <1>4, <1>5, <1>6

\* A ledger that grows without a CertificateIssued keeps all that LedgerInv says
\* of it before it is stored.
LEMMA GrowsKeeps ==
  ASSUME LedgerTypeOK, ledger # << >>, ~Announced(ledger),
         harness # None => \E i \in DOMAIN ledger : ledger[i].artifact = harness,
         Grows
  PROVE  /\ ledger' # << >> /\ ~Announced(ledger')
         /\ harness' # None => \E i \in DOMAIN ledger' : ledger'[i].artifact = harness'
<1>1. CASE ledger' = ledger /\ harness' \in {harness, None}
  BY <1>1
<1>2. ASSUME NEW e \in Events, e.kind # "CertificateIssued", ledger' = Append(ledger, e),
             harness' \in {harness, e.artifact}
      PROVE  /\ ledger' # << >> /\ ~Announced(ledger')
             /\ harness' # None => \E i \in DOMAIN ledger' : ledger'[i].artifact = harness'
  BY <1>2, AppendFacts DEF LedgerTypeOK
<1> QED BY <1>1, <1>2 DEF Grows

\* The stored ledger is empty before persist_ledger and complete after it.
LEMMA LedgerNext ==
  ASSUME TypeOK, FreshIds, LedgerInv, [Next]_vars
  PROVE  LedgerInv'
<1> USE RunningLabels DEF Committing, Mismatching, Logged, Labels
<1>t. /\ cid \in 0 .. MaxRuns /\ (pc # "idle" => cid \in Runs)
      /\ ledgers \in [Runs -> Seq(Events)] /\ ledger \in Seq(Events)
  BY DEF TypeOK, ControlTypeOK, StoreTypeOK, LedgerTypeOK
<1>e. ~Announced(<< >>)
  BY DEF Announced
<1>1. Shapes
  BY StepShape
<1>2. CASE StartRun
  <2>1. cid + 1 \in Runs /\ cid + 1 > cid
    BY <1>2, <1>t, BoundsAssumption DEF StartRun, Runs
  <2>2. /\ pc = "idle" /\ pc' = "environment" /\ cid' = cid + 1 /\ ledgers' = ledgers
        /\ harness' = harness /\ ledger' = <<Event("TargetSnapshotted", target)>>
    BY <1>2 DEF StartRun, store
  <2>3. harness = None
    BY <2>2 DEF LedgerInv
  <2>4. ledger' # << >> /\ ~Announced(ledger')
    BY <2>2 DEF Announced, Event
  <2> QED BY <2>1, <2>2, <2>3, <2>4 DEF LedgerInv, FreshIds
<1>3. CASE Quiet
  <2>1. /\ ledger' # << >> /\ ~Announced(ledger')
        /\ harness' # None => \E i \in DOMAIN ledger' : ledger'[i].artifact = harness'
    BY <1>3, GrowsKeeps DEF Quiet, LedgerInv, TypeOK
  <2>2. UNCHANGED <<cid, ledgers>> /\ pc \in Running /\ pc' \in Running
    BY <1>3 DEF Quiet, store
  <2> QED BY <2>1, <2>2 DEF LedgerInv
<1>4. CASE Closes \/ Ends
  <2>1. pc' = "idle" /\ ledger' = << >> /\ harness' = None
    BY <1>4 DEF Closes, Ends, FailClosed, Return
  <2> QED BY <2>1, <1>e DEF LedgerInv
<1>5. CASE Aside
  BY <1>5 DEF Aside, memory, inputs, store, LedgerInv
<1>6. CASE EnvironmentMismatch
  BY <1>6 DEF EnvironmentMismatch, Goto, memory, inputs, LedgerInv
<1>7. CASE MismatchLedger
  BY <1>7, <1>t DEF MismatchLedger, Goto, memory, inputs, LedgerInv
<1>8. CASE Conclude
  <2> DEFINE reattack   == Event("ReattackCompleted", None)
             regression == Event("RegressionCreated", None)
  <2>1. /\ pc = "conclude" /\ pc' = "persistLedger" /\ UNCHANGED <<cid, ledgers, harness>>
        /\ ledger' \in {ledger, ledger \o <<reattack, regression>>}
    BY <1>8 DEF Conclude, Goto, inputs
  <2>2. reattack \in Events /\ regression \in Events
    BY EventType DEF EventKinds, Artifacts
  <2>3. ledger' \in {ledger, Append(Append(ledger, reattack), regression)}
    BY <1>t, <2>1, <2>2, ConcatAsAppend
  <2>4. reattack.kind # "CertificateIssued" /\ regression.kind # "CertificateIssued"
    BY DEF Event
  <2>5. /\ ledger # << >> /\ ~Announced(ledger)
        /\ harness # None => \E i \in DOMAIN ledger : ledger[i].artifact = harness
    BY <2>1 DEF LedgerInv
  <2> DEFINE once == Append(ledger, reattack)
  <2>6. /\ once \in Seq(Events) /\ ~Announced(once)
        /\ harness # None => \E i \in DOMAIN once : once[i].artifact = harness
    BY <1>t, <2>2, <2>4, <2>5, AppendFacts
  <2>7. /\ Append(once, regression) # << >> /\ ~Announced(Append(once, regression))
        /\ harness # None => \E i \in DOMAIN Append(once, regression) :
                              Append(once, regression)[i].artifact = harness
    <3> HIDE DEF once, regression
    <3> QED BY <2>2, <2>4, <2>6, AppendFacts
  <2>8. /\ ledger' # << >> /\ ~Announced(ledger')
        /\ harness' # None => \E i \in DOMAIN ledger' : ledger'[i].artifact = harness'
    BY Zenon, <2>1, <2>3, <2>5, <2>7
  <2> QED BY <2>1, <2>8 DEF LedgerInv
<1>9. CASE PersistLedger
  <2> DEFINE issued == Issued(spec.contained, original = afterAll)
  <2>1. PICK claim \in {<< >>, <<Event("AssumptionCreated", None)>>} :
          ledger' = Append(ledger \o claim, issued)
    BY <1>9 DEF PersistLedger
  <2>2. /\ pc = "persistLedger" /\ pc' = "persistGraph" /\ ledgers'[cid] = ledger'
        /\ UNCHANGED <<cid, harness, spec, original, afterAll>>
    BY <1>9, <1>t DEF PersistLedger, Goto, inputs
  <2>3. ledger \o claim \in Seq(Events)
    BY Zenon, <2>2, PersistedType
  <2>4. issued \in Events
    BY Zenon, <2>2, IssuedType, SpecsAssumption DEF Valid, TypeOK, InputsTypeOK
  <2>5. \A i \in DOMAIN ledger : i \in DOMAIN (ledger \o claim) /\ (ledger \o claim)[i] = ledger[i]
    <3>1. Event("AssumptionCreated", None) \in Events
      BY EventType DEF EventKinds, Artifacts
    <3>2. ledger \o claim \in {ledger, Append(ledger, Event("AssumptionCreated", None))}
      BY Zenon, <1>t, <3>1, ConcatAsAppend
    <3>3. CASE ledger \o claim = ledger
      BY Zenon, <3>3
    <3>4. CASE ledger \o claim = Append(ledger, Event("AssumptionCreated", None))
      <4> DEFINE e == Event("AssumptionCreated", None)
      <4> HIDE DEF e
      <4>1. \A i \in DOMAIN ledger :
              i \in DOMAIN Append(ledger, e) /\ Append(ledger, e)[i] = ledger[i]
        BY <1>t, <3>1, AppendFacts DEF e
      <4> QED BY Zenon, <3>4, <4>1 DEF e
    <3> QED BY Zenon, <3>2, <3>3, <3>4
  <2>6. /\ ledger' # << >> /\ ledger'[Len(ledger')] = issued
        /\ \A i \in DOMAIN (ledger \o claim) :
             i \in DOMAIN ledger' /\ ledger'[i] = (ledger \o claim)[i]
    <3> HIDE DEF issued
    <3> QED BY <2>1, <2>3, <2>4, AppendFacts
  <2>7. issued' = issued
    BY <2>2
  <2>8. harness' # None => \E i \in DOMAIN ledger' : ledger'[i].artifact = harness'
    BY <2>2, <2>5, <2>6 DEF LedgerInv
  <2> QED BY <2>2, <2>6, <2>7, <2>8 DEF LedgerInv
<1>10. CASE PersistGraph
  BY <1>10 DEF PersistGraph, Goto, memory, inputs, LedgerInv
<1>11. CASE OpenCertificate \/ WriteCertificate
  BY <1>11 DEF OpenCertificate, WriteCertificate, Goto, memory, inputs, store, LedgerInv
<1> QED
  BY <1>1, <1>2, <1>3, <1>4, <1>5, <1>6, <1>7, <1>8, <1>9, <1>10, <1>11 DEF Shapes

\* A fresh work directory satisfies the commit order.
LEMMA CommitInit == Init => CommitInvariant
<1> SUFFICES ASSUME Init PROVE CommitInvariant
  OBVIOUS
<1> USE RunningLabels DEF Init, Committing, Mismatching, Logged, Graphed
<1>1. FreshIds /\ CertificateInv
  BY DEF FreshIds, CertificateInv, Certified
<1>2. RowInv /\ GraphInv
  BY DEF RowInv, GraphInv
<1>3. LedgerInv
  BY DEF LedgerInv, Announced
<1> QED BY <1>1, <1>2, <1>3 DEF CommitInvariant

(***************************************************************************)
(* The commit order of run_declared_campaign holds for any number of runs, *)
(* files, contents, payloads and specifications, with an abort or an edit  *)
(* of the trees between any two steps.                                     *)
(***************************************************************************)
THEOREM CommitOrder == Spec => []CommitInvariant
<1>1. TypeOK /\ CommitInvariant /\ [Next]_vars => CommitInvariant'
  BY FreshIdsNext, RowNext, LedgerNext, GraphNext, CertificateNext DEF CommitInvariant
<1> QED BY CommitInit, TypeCorrect, <1>1, PTL DEF Spec
=============================================================================
