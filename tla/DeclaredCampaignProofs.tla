------------------------ MODULE DeclaredCampaignProofs ------------------------
(***************************************************************************)
(* What the commit order gives a reader of the work directory: whole       *)
(* certificates are backed by the store, row, ledger, graph and            *)
(* certificate agree, and the directory implements EvidenceBundle.  Then   *)
(* what a run has measured at each label, and with it what a certificate   *)
(* says: its top level is earned, and that of an Ok run verifies.          *)
(***************************************************************************)
EXTENDS DeclaredCampaignCommit

\* The stored ledger of the campaign that a certificate is about never changes
\* while that certificate is on disk.
LEMMA CertifiedLedgerStays ==
  ASSUME TypeOK, CommitInvariant, [Next]_vars, Certified, UNCHANGED certificate
  PROVE  /\ campaigns'[certificate.cid] = campaigns[certificate.cid]
         /\ ledgers'[certificate.cid] = ledgers[certificate.cid]
         /\ graphs'[certificate.cid] = graphs[certificate.cid]
<1> USE RunningLabels
<1>1. certificate.cid \in Runs
  BY DEF TypeOK, OutputsTypeOK, Certified, Certificates
<1>2. CASE certificate.cid # cid
  BY <1>1, <1>2, OwnRowsOnly
<1>3. CASE certificate.cid = cid
  <2>1. pc \in {"report", "idle"}
    BY <1>3 DEF CommitInvariant, CertificateInv
  <2>2. UNCHANGED store
    <3>1. Shapes
      BY StepShape
    <3>2. CASE StartRun
      BY <3>2 DEF StartRun
    <3>3. CASE Quiet \/ Closes
      BY <2>1, <3>3 DEF Quiet, Closes
    <3>4. CASE Ends \/ Aside
      BY <3>4 DEF Ends, Aside
    <3>5. CASE \/ EnvironmentMismatch \/ MismatchLedger \/ Conclude \/ PersistLedger
               \/ PersistGraph \/ OpenCertificate \/ WriteCertificate
      BY <2>1, <3>5 DEF EnvironmentMismatch, MismatchLedger, Conclude, PersistLedger,
                        PersistGraph, OpenCertificate, WriteCertificate
    <3> QED BY <3>1, <3>2, <3>3, <3>4, <3>5 DEF Shapes
  <2> QED BY <2>2 DEF store
<1> QED BY <1>2, <1>3

\* Only the two certificate steps touch certificate.json.
LEMMA CertificateFrame ==
  ASSUME TypeOK, [Next]_vars
  PROVE  UNCHANGED certificate \/ OpenCertificate \/ WriteCertificate
<1>1. Shapes
  BY StepShape
<1>2. CASE StartRun
  BY <1>2 DEF StartRun, outputs
<1>3. CASE Quiet \/ Closes \/ Ends \/ Aside
  BY <1>3 DEF Quiet, Closes, Ends, Aside
<1>4. CASE EnvironmentMismatch \/ MismatchLedger \/ Conclude \/ PersistLedger \/ PersistGraph
  BY <1>4 DEF EnvironmentMismatch, MismatchLedger, Conclude, PersistLedger, PersistGraph,
              outputs
<1> QED BY <1>1, <1>2, <1>3, <1>4 DEF Shapes

\* check_ledger accepts the certificate that write_certificate has just written.
LEMMA NewCertificateBacked ==
  ASSUME TypeOK, CommitInvariant, WriteCertificate
  PROVE  CertificateBacked'
<1> USE RunningLabels DEF Committing, Logged
<1>1. /\ pc = "writeCertificate" /\ certificate' = NewCertificate /\ UNCHANGED <<cid, ledgers>>
  BY DEF WriteCertificate, Goto, store
<1>2. /\ ledgers[cid] = ledger /\ ledger # << >> /\ ledger \in Seq(Events)
      /\ ledger[Len(ledger)] = Issued(spec.contained, original = afterAll)
      /\ harness # None => \E i \in DOMAIN ledger : ledger[i].artifact = harness
  BY <1>1 DEF CommitInvariant, LedgerInv, TypeOK, LedgerTypeOK
<1>3. /\ NewCertificate.cid = cid /\ NewCertificate.head = ledger
      /\ NewCertificate.harness = harness /\ NewCertificate.contained = spec.contained
      /\ NewCertificate.original = original /\ NewCertificate.after = afterAll
  BY DEF NewCertificate
<1>4. DOMAIN ledger = 1 .. Len(ledger) /\ Len(ledger) \in Nat \ {0}
  BY <1>2, LenProperties, EmptySeq
<1>5. \E i \in DOMAIN ledger :
        /\ ledger[i] = Issued(spec.contained, original = afterAll)
        /\ \A k \in DOMAIN ledger : k > i => ledger[k].kind # "CertificateIssued"
  <2>1. Len(ledger) \in DOMAIN ledger /\ \A k \in DOMAIN ledger : ~(k > Len(ledger))
    BY <1>4
  <2> QED BY <1>2, <2>1
<1>6. ledgers'[certificate'.cid] = ledger
  BY <1>1, <1>2, <1>3
<1> QED BY <1>1, <1>2, <1>3, <1>5, <1>6 DEF CertificateBacked, CheckLedger

(***************************************************************************)
(* A certificate that is on disk whole is accepted by check_ledger, for    *)
(* every number of runs and every way of cutting them off: the ledger is   *)
(* durable before the certificate and no later run rewrites it.            *)
(***************************************************************************)
THEOREM CertificatesAreBacked == Spec => []CertificateBacked
<1>1. Init => CertificateBacked
  BY DEF Init, CertificateBacked, Certified
<1>2. TypeOK /\ CommitInvariant /\ CertificateBacked /\ [Next]_vars => CertificateBacked'
  <2> SUFFICES ASSUME TypeOK, CommitInvariant, CertificateBacked, [Next]_vars
               PROVE  CertificateBacked'
    OBVIOUS
  <2>1. CASE UNCHANGED certificate
    <3>1. CASE Certified
      <4>1. ledgers'[certificate.cid] = ledgers[certificate.cid]
        BY <2>1, <3>1, CertifiedLedgerStays
      <4> QED BY <2>1, <3>1, <4>1 DEF CertificateBacked, CheckLedger
    <3>2. CASE ~Certified
      BY <2>1, <3>2 DEF CertificateBacked, Certified
    <3> QED BY <3>1, <3>2
  <2>2. CASE OpenCertificate
    BY <2>2 DEF OpenCertificate, CertificateBacked, Certified
  <2>3. CASE WriteCertificate
    BY <2>3, NewCertificateBacked
  <2> QED BY <2>1, <2>2, <2>3, CertificateFrame
<1> QED BY <1>1, <1>2, TypeCorrect, CommitOrder, PTL DEF Spec

\* A verdict is neither missing nor Failed, and the graph's conclusion is
\* Verified exactly when the verdict is one of the verified states.
LEMMA VerdictFacts ==
  ASSUME TypeOK, pc # "idle"
  PROVE  /\ Verdict \in FinalStates /\ Verdict \notin {None, "Failed"}
         /\ ConclusionState(Judgement, Verified) # None
         /\ ConclusionState(Judgement, Verified) = "Verified" <=> Verdict \in VerifiedStates
<1>1. Judgement \in {Attack, Holds}
  BY DEF Judgement, Overall
<1>2. Level = 7 => Judgement = Attack
  BY <1>1 DEF Level, RawLevel, Attack, Holds, Indeterminate
<1>3. Verdict \in {"InsufficientEvidence", "RegressionProtected", "Verified", "Refuted"}
  BY DEF Verdict, StateFor
<1>4. Verified => Judgement = Attack
  BY <1>2 DEF Verified, Verdict, StateFor, VerifiedStates
<1>5. None \notin {"InsufficientEvidence", "RegressionProtected", "Verified", "Refuted",
                   "Claimed", "Stale"}
  BY NoneAssumption DEF FinalStates, Conclusions
<1>6. Verdict \in FinalStates /\ Verdict \notin {None, "Failed"}
  BY <1>3, <1>5 DEF FinalStates
<1>7. CASE Verified
  BY <1>4, <1>5, <1>6, <1>7 DEF ConclusionState, Verified, Attack, Holds
<1>8. CASE ~Verified
  BY <1>1, <1>5, <1>6, <1>8 DEF ConclusionState, Verified, Attack, Holds
<1> QED BY <1>6, <1>7, <1>8

\* StoresAgree for one campaign's rows.
RowsAgree(c) ==
  /\ Announced(ledgers[c]) => campaigns[c] \notin {None, "Failed"}
  /\ graphs[c] # None =>
       /\ Announced(ledgers[c])
       /\ graphs[c] = "Verified" <=> campaigns[c] \in VerifiedStates

\* No step makes the rows of a campaign disagree.
LEMMA OwnRowsAgree ==
  ASSUME TypeOK, CommitInvariant, [Next]_vars, NEW c \in Runs, RowsAgree(c)
  PROVE  RowsAgree(c)'
<1> USE RunningLabels DEF Committing, Mismatching, Logged, Labels, Graphed
<1>t. /\ (pc # "idle" => cid \in Runs)
      /\ campaigns \in [Runs -> FinalStates \cup {None}]
      /\ ledgers \in [Runs -> Seq(Events)] /\ ledger \in Seq(Events)
      /\ graphs \in [Runs -> Conclusions \cup {None}]
  BY DEF TypeOK, ControlTypeOK, StoreTypeOK, LedgerTypeOK
<1>e. ~Announced(<< >>)
  BY DEF Announced
<1>1. Shapes
  BY StepShape
<1>2. CASE UNCHANGED store
  BY <1>2 DEF store, RowsAgree
<1>3. CASE c # cid
  BY <1>3, OwnRowsOnly DEF RowsAgree
<1>4. CASE c = cid /\ Closes
  <2>1. PICK category, events :
          /\ FailClosed(category, events)
          /\ events \in {ledger, Append(ledger, Event("ObservationRecorded", None))}
    BY <1>4 DEF Closes
  <2>2. ledgers[c] = << >> /\ graphs[c] = None /\ ~Announced(ledger)
    BY <1>4 DEF Closes, CommitInvariant, LedgerInv, GraphInv
  <2>3. /\ Event("ObservationRecorded", None) \in Events
        /\ Event("ObservationRecorded", None).kind # "CertificateIssued"
    BY EventType DEF EventKinds, Artifacts, Event
  <2>4. ~Announced(Append(ledger, Event("ObservationRecorded", None)))
    BY <1>t, <2>2, <2>3, AppendFacts
  <2>5. graphs' = graphs /\ ledgers'[c] \in {<< >>, events}
    BY <1>4, <1>t, <2>1, <2>2 DEF FailClosed, Closes
  <2>6. ~Announced(ledgers'[c])
    BY Zenon, <1>e, <2>1, <2>2, <2>4, <2>5
  <2> QED BY <2>2, <2>5, <2>6 DEF RowsAgree
<1>5. CASE c = cid /\ EnvironmentMismatch
  <2>1. ledgers'[c] = << >> /\ graphs'[c] = None
    BY <1>5 DEF EnvironmentMismatch, CommitInvariant, LedgerInv, GraphInv
  <2> QED BY <1>e, <2>1 DEF RowsAgree
<1>6. CASE c = cid /\ MismatchLedger
  <2>1. ledgers'[c] = ledger /\ ~Announced(ledger) /\ graphs'[c] = None
    BY <1>6, <1>t DEF MismatchLedger, CommitInvariant, LedgerInv, GraphInv
  <2> QED BY <2>1 DEF RowsAgree
<1>7. CASE c = cid /\ Conclude
  <2>1. ledgers'[c] = << >> /\ graphs'[c] = None
    BY <1>7 DEF Conclude, CommitInvariant, LedgerInv, GraphInv
  <2> QED BY <1>e, <2>1 DEF RowsAgree
<1>8. CASE c = cid /\ PersistLedger
  <2>1. campaigns'[c] = Verdict /\ graphs'[c] = None /\ pc # "idle"
    BY <1>8 DEF PersistLedger, CommitInvariant, RowInv, GraphInv
  <2> QED BY <2>1, VerdictFacts DEF RowsAgree
<1>9. CASE c = cid /\ PersistGraph
  <2>1. /\ campaigns'[c] = Verdict /\ ledgers'[c] = ledger /\ pc # "idle" /\ ledger # << >>
        /\ ledger[Len(ledger)] = Issued(spec.contained, original = afterAll)
    BY <1>9 DEF PersistGraph, CommitInvariant, RowInv, LedgerInv
  <2>2. graphs'[c] = ConclusionState(Judgement, Verified)
    BY <1>9, <1>t DEF PersistGraph
  <2>3. Len(ledger) \in DOMAIN ledger
    <3>1. DOMAIN ledger = 1 .. Len(ledger) /\ Len(ledger) \in Nat
      BY Zenon, <1>t, LenProperties
    <3>2. Len(ledger) # 0
      BY Zenon, <1>t, <2>1, EmptySeq
    <3> QED BY <3>1, <3>2
  <2>4. Announced(ledger)
    <3>1. ledger[Len(ledger)].kind = "CertificateIssued"
      <4>1. \A x, y : Issued(x, y).kind = "CertificateIssued"
        BY DEF Issued
      <4> QED BY <2>1, <4>1
    <3> QED BY Zenon, <2>3, <3>1 DEF Announced
  <2> QED BY <2>1, <2>2, <2>4, VerdictFacts DEF RowsAgree
<1>10. CASE StartRun \/ Quiet \/ Ends \/ Aside \/ OpenCertificate \/ WriteCertificate
  BY <1>2, <1>10 DEF StartRun, Quiet, Ends, Aside, OpenCertificate, WriteCertificate
<1> QED BY <1>1, <1>3, <1>4, <1>5, <1>6, <1>7, <1>8, <1>9, <1>10 DEF Shapes

\* StoresAgree for the certificate.
RowRepeated ==
  Certified => /\ graphs[certificate.cid] # None
               /\ campaigns[certificate.cid] = certificate.state
               /\ certificate.verified <=> certificate.state \in VerifiedStates

\* No step makes the certificate disagree with the rows it is about.
LEMMA RowRepeatedNext ==
  ASSUME TypeOK, CommitInvariant, RowRepeated, [Next]_vars
  PROVE  RowRepeated'
<1> USE RunningLabels DEF Committing, Logged, Graphed
<1>1. CASE UNCHANGED certificate /\ Certified
  BY <1>1, CertifiedLedgerStays DEF RowRepeated, Certified
<1>2. CASE UNCHANGED certificate /\ ~Certified
  BY <1>2 DEF RowRepeated, Certified
<1>3. CASE OpenCertificate
  BY <1>3 DEF OpenCertificate, RowRepeated, Certified
<1>4. CASE WriteCertificate
  <2>1. /\ pc = "writeCertificate" /\ certificate' = NewCertificate
        /\ UNCHANGED <<campaigns, graphs>>
    BY <1>4 DEF WriteCertificate, store
  <2>2. /\ NewCertificate.cid = cid /\ NewCertificate.state = Verdict
        /\ NewCertificate.verified = Verified
    BY DEF NewCertificate
  <2>3. campaigns[cid] = Verdict /\ graphs[cid] = ConclusionState(Judgement, Verified)
    BY <2>1 DEF CommitInvariant, RowInv, GraphInv
  <2>4. graphs[cid] # None /\ (Verified <=> Verdict \in VerifiedStates)
    BY <2>1, <2>3, VerdictFacts DEF Verified
  <2> QED BY <2>1, <2>2, <2>3, <2>4 DEF RowRepeated
<1> QED BY <1>1, <1>2, <1>3, <1>4, CertificateFrame

(***************************************************************************)
(* Row, ledger, graph and certificate never tell different stories, for    *)
(* every number of runs and wherever each of them is cut off.              *)
(***************************************************************************)
THEOREM StoresAlwaysAgree == Spec => []StoresAgree
<1>1. StoresAgree <=> (\A c \in Runs : RowsAgree(c)) /\ RowRepeated
  BY DEF StoresAgree, RowsAgree, RowRepeated
<1>2. Init => StoresAgree
  BY DEF Init, StoresAgree, Announced, Certified
<1>3. TypeOK /\ CommitInvariant /\ StoresAgree /\ [Next]_vars => StoresAgree'
  <2> SUFFICES ASSUME TypeOK, CommitInvariant, StoresAgree, [Next]_vars PROVE StoresAgree'
    OBVIOUS
  <2>1. \A c \in Runs : RowsAgree(c)'
    BY <1>1, OwnRowsAgree
  <2>2. RowRepeated'
    BY <1>1, RowRepeatedNext
  <2> QED BY <2>1, <2>2 DEF StoresAgree, RowsAgree, RowRepeated
<1> QED BY <1>2, <1>3, TypeCorrect, CommitOrder, PTL DEF Spec

-----------------------------------------------------------------------------
(* Refinement *)

\* A step that leaves the rows, the ledgers and the certificate alone is a
\* stuttering step of the bundle.
LEMMA BundleStutter ==
  ASSUME UNCHANGED <<campaigns, ledgers, certificate>>
  PROVE  UNCHANGED Bundle!vars
  BY DEF Bundle!vars, Certified

\* Writing one row at the current id is a Write step of the bundle.
LEMMA BundleWrite ==
  ASSUME cid \in Runs, UNCHANGED certificate, NEW verdict \in FinalStates,
         NEW events \in Seq(Events),
         campaigns \in [Runs -> FinalStates \cup {None}], ledgers \in [Runs -> Seq(Events)],
         \/ campaigns' = campaigns
         \/ campaigns[cid] = None /\ campaigns' = [campaigns EXCEPT ![cid] = verdict],
         \/ ledgers' = ledgers
         \/ ledgers[cid] = << >> /\ ledgers' = [ledgers EXCEPT ![cid] = events]
  PROVE  [Bundle!Next]_(Bundle!vars)
<1>1. CASE campaigns' = campaigns /\ ledgers' = ledgers
  BY <1>1, BundleStutter
<1>s. UNCHANGED (IF Certified THEN [campaign |-> certificate.cid, state |-> certificate.state,
                                    log |-> certificate.head]
                 ELSE None)
  BY DEF Certified
<1>2. CASE campaigns[cid] = None /\ campaigns' = [campaigns EXCEPT ![cid] = verdict]
  <2>1. Bundle!Record(cid)
    BY <1>2 DEF Bundle!Record
  <2>2. CASE ledgers' = ledgers
    <3>1. Bundle!Write(cid)
      BY <1>s, <2>1, <2>2 DEF Bundle!Write
    <3> QED BY <3>1 DEF Bundle!Next
  <2>3. CASE ledgers[cid] = << >> /\ ledgers' = [ledgers EXCEPT ![cid] = events]
    <3>1. Bundle!Log(cid)
      BY <2>3 DEF Bundle!Log
    <3>2. Bundle!Write(cid)
      BY <1>s, <2>1, <3>1 DEF Bundle!Write
    <3> QED BY <3>2 DEF Bundle!Next
  <2> QED BY <2>2, <2>3
<1>3. CASE /\ campaigns' = campaigns
           /\ ledgers[cid] = << >> /\ ledgers' = [ledgers EXCEPT ![cid] = events]
  <2>1. Bundle!Log(cid)
    BY <1>3 DEF Bundle!Log
  <2>2. Bundle!Write(cid)
    BY <1>s, <1>3, <2>1 DEF Bundle!Write
  <2> QED BY <2>2 DEF Bundle!Next
<1> QED BY <1>1, <1>2, <1>3

\* Every step of a run is a step of the bundle or leaves it alone.
LEMMA BundleStep ==
  ASSUME TypeOK, CommitInvariant, [Next]_vars
  PROVE  [Bundle!Next]_(Bundle!vars)
<1> USE RunningLabels DEF Committing, Mismatching, Logged
<1>t. /\ (pc # "idle" => cid \in Runs) /\ ledger \in Seq(Events)
      /\ campaigns \in [Runs -> FinalStates \cup {None}]
      /\ ledgers \in [Runs -> Seq(Events)]
  BY DEF TypeOK, ControlTypeOK, StoreTypeOK, LedgerTypeOK
<1>n. TypeOK'
  BY TypeNext
<1>1. Shapes
  BY StepShape
<1>2. CASE StartRun \/ Quiet \/ Ends \/ Aside \/ PersistGraph
  <2>1. UNCHANGED <<campaigns, ledgers, certificate>>
    BY <1>2 DEF StartRun, Quiet, Ends, Aside, PersistGraph, store, outputs
  <2> QED BY <2>1, BundleStutter
<1>3. CASE Closes
  <2>1. PICK category, events :
          /\ FailClosed(category, events)
          /\ events \in {ledger, Append(ledger, Event("ObservationRecorded", None))}
    BY <1>3 DEF Closes
  <2>2. Event("ObservationRecorded", None) \in Events
    BY EventType DEF EventKinds, Artifacts
  <2>3. events \in Seq(Events)
    BY Zenon, <1>t, <2>1, <2>2, AppendFacts
  <2>4. /\ campaigns[cid] = None /\ ledgers[cid] = << >> /\ cid \in Runs
        /\ UNCHANGED certificate
    BY <1>3, <1>t DEF Closes, CommitInvariant, RowInv, LedgerInv
  <2>5. /\ \/ campaigns' = campaigns
           \/ campaigns' = [campaigns EXCEPT ![cid] = "InsufficientEvidence"]
        /\ \/ ledgers' = ledgers
           \/ ledgers' = [ledgers EXCEPT ![cid] = events]
    BY <2>1 DEF FailClosed
  <2>6. "InsufficientEvidence" \in FinalStates
    BY DEF FinalStates
  <2> QED BY <1>t, <2>3, <2>4, <2>5, <2>6, BundleWrite
<1>4. CASE EnvironmentMismatch
  <2>1. /\ cid \in Runs /\ UNCHANGED <<certificate, ledgers>> /\ campaigns[cid] = None
        /\ campaigns' = [campaigns EXCEPT ![cid] = "Failed"]
    BY <1>4, <1>t DEF EnvironmentMismatch, outputs, CommitInvariant, RowInv
  <2>2. "Failed" \in FinalStates
    BY DEF FinalStates
  <2> QED BY Zenon, <1>t, <2>1, <2>2, BundleWrite
<1>5. CASE Conclude
  <2>1. /\ cid \in Runs /\ UNCHANGED <<certificate, ledgers>> /\ campaigns[cid] = None
        /\ campaigns' = [campaigns EXCEPT ![cid] = Verdict]
    BY <1>5, <1>t DEF Conclude, outputs, CommitInvariant, RowInv
  <2> QED BY Zenon, <1>t, <2>1, VerdictType, BundleWrite
<1>6. CASE MismatchLedger
  <2>1. /\ cid \in Runs /\ UNCHANGED <<certificate, campaigns>> /\ ledgers[cid] = << >>
        /\ ledgers' = [ledgers EXCEPT ![cid] = ledger]
    BY <1>6, <1>t DEF MismatchLedger, outputs, CommitInvariant, LedgerInv
  <2> QED BY Zenon, <1>t, <2>1, VerdictType, BundleWrite
<1>7. CASE PersistLedger
  <2>1. /\ cid \in Runs /\ UNCHANGED <<certificate, campaigns>> /\ ledgers[cid] = << >>
        /\ ledgers' = [ledgers EXCEPT ![cid] = ledger']
    BY <1>7, <1>t DEF PersistLedger, outputs, CommitInvariant, LedgerInv
  <2>2. ledger' \in Seq(Events)
    BY <1>n DEF TypeOK, LedgerTypeOK
  <2> QED BY Zenon, <1>t, <2>1, <2>2, VerdictType, BundleWrite
<1>8. CASE OpenCertificate
  <2>1. certificate' = Torn /\ UNCHANGED <<campaigns, ledgers>>
    BY <1>8 DEF OpenCertificate, store
  <2>2. Bundle!Withdraw
    BY <2>1 DEF Bundle!Withdraw, Certified
  <2> QED BY <2>2 DEF Bundle!Next
<1>9. CASE WriteCertificate
  <2>1. /\ pc = "writeCertificate" /\ certificate' = NewCertificate
        /\ UNCHANGED <<campaigns, ledgers>>
    BY <1>9 DEF WriteCertificate, store
  <2>2. /\ certificate = Torn /\ campaigns[cid] = Verdict /\ ledgers[cid] = ledger
        /\ ledger # << >> /\ cid \in Runs
    BY <1>t, <2>1 DEF CommitInvariant, CertificateInv, RowInv, LedgerInv
  <2>3. Verdict # None
    BY <2>1, VerdictFacts
  <2>4. /\ NewCertificate.cid = cid /\ NewCertificate.state = Verdict
        /\ NewCertificate.head = ledger
    BY DEF NewCertificate
  <2>5. Certified'
    BY <2>1, CertificateType, NoCertificateAssumption DEF Certified
  <2>6. Bundle!Certify(cid)
    BY <2>1, <2>2, <2>3, <2>4, <2>5 DEF Bundle!Certify, Certified
  <2> QED BY <2>2, <2>6 DEF Bundle!Next
<1> QED BY <1>1, <1>2, <1>3, <1>4, <1>5, <1>6, <1>7, <1>8, <1>9 DEF Shapes

(***************************************************************************)
(* A work directory keeps the promise of EvidenceBundle: whatever the runs *)
(* do, verdicts and ledgers are written once, and a certificate is issued  *)
(* only over a durable verdict and a durable ledger, which it repeats.     *)
(***************************************************************************)
THEOREM WorkDirectoryIsABundle == Spec => ImplementsBundle
<1>1. Init => Bundle!Init
  BY DEF Init, Bundle!Init, Certified
<1>2. TypeOK /\ CommitInvariant /\ [Next]_vars => [Bundle!Next]_(Bundle!vars)
  BY BundleStep
<1> QED BY <1>1, <1>2, TypeCorrect, CommitOrder, PTL DEF Spec, ImplementsBundle, Bundle!Spec

-----------------------------------------------------------------------------
(* What the arms established, as an inductive invariant *)

AfterE7      == {"snapshotAll", "conclude"} \cup Committing
AfterTwin    == {"tryE7"} \cup AfterE7
AfterReplica == {"copyTwin", "runTwin", "checkTwin"} \cup AfterTwin

\* A measurement is held only after the step that takes it; E7 on top of both.
FlagsInv ==
  /\ independent => pc \in AfterReplica
  /\ twinHolds => pc \in AfterTwin
  /\ e7 => pc \in AfterE7 /\ twinHolds /\ independent /\ regressionFile

\* The surface loop has one judgement per plan when it is over.
PlansInv ==
  /\ pc \in {"environment", "archive", "good", "mutant", "idle"} => judged = << >>
  /\ pc = "attack" => Len(judged) < Len(spec.plans)
  /\ pc \in {"judge", "copyReplica", "runReplica"} => Len(judged) = Len(spec.plans)

DistinctPlans == \A i, k \in DOMAIN spec.plans : spec.plans[i] = spec.plans[k] => i = k

Reproduced ==
  /\ ranOn.replica = original
  /\ DistinctPlans => ranOn.replicaJudged = judged

\* The arms run on the original's digest, before the check of the target too.
ReplicaInv ==
  /\ pc = "runReplica" => replicaDir = original
  /\ pc = "checkOriginal" \/ independent => Reproduced

Protected(events) == \E i \in DOMAIN events : events[i].kind = "RegressionCreated"

\* From the last snapshot on E7 means equal digests, from the verdict on its
\* events are in the ledger.
E7Inv ==
  /\ e7 /\ pc \in {"conclude"} \cup Committing => original = afterAll
  /\ e7 /\ pc \in Committing => Protected(ledger)

\* The payload in memory is the one on disk.
MinimizedInv == minimized # None => minimizedBin = minimized

\* What a run has measured, at every point of it.
ArmsInv == FlagsInv /\ PlansInv /\ ReplicaInv /\ E7Inv /\ MinimizedInv

\* The ledger only grows.
LEMMA ProtectedGrows ==
  ASSUME NEW s \in Seq(Events), NEW e \in Events, Protected(s)
  PROVE  Protected(Append(s, e))
<1>1. PICK i \in DOMAIN s : s[i].kind = "RegressionCreated"
  BY DEF Protected
<1>2. i \in DOMAIN Append(s, e) /\ Append(s, e)[i] = s[i]
  BY Zenon, AppendFacts
<1> QED BY Zenon, <1>1, <1>2 DEF Protected

\* A step that leaves the memory and the evidence files alone, and does not
\* enter a label that asks for more.
LEMMA ArmsStay ==
  ASSUME ArmsInv, UNCHANGED <<memory, minimizedBin, regressionFile>>,
         \/ pc' = pc /\ UNCHANGED replicaDir
         \/ /\ pc' \notin {"idle", "attack", "judge", "copyReplica", "runReplica",
                           "checkOriginal", "conclude", "persistLedger"}
            /\ pc \in AfterReplica => pc' \in AfterReplica
            /\ pc \in AfterTwin => pc' \in AfterTwin
            /\ pc \in AfterE7 => pc' \in AfterE7
            /\ pc' \in Committing => pc \in Committing
            /\ pc' \in {"environment", "archive", "good", "mutant"}
                 => pc \in {"environment", "archive", "good", "mutant"}
  PROVE  ArmsInv'
<1>1. FlagsInv'
  BY DEF ArmsInv, FlagsInv, memory, flags
<1>2. PlansInv'
  BY DEF ArmsInv, PlansInv, memory, inputs, arms
<1>3. ReplicaInv'
  BY DEF ArmsInv, ReplicaInv, Reproduced, DistinctPlans, memory, inputs, arms, flags
<1>4. E7Inv' /\ MinimizedInv'
  BY DEF ArmsInv, E7Inv, MinimizedInv, Protected, memory, inputs, arms, flags, Committing
<1> QED BY <1>1, <1>2, <1>3, <1>4 DEF ArmsInv

\* A run that returns takes what it measured with it.
LEMMA ArmsReturn ==
  ASSUME NEW how, Return(how) PROVE ArmsInv'
<1>1. pc' = "idle" /\ independent' = FALSE /\ twinHolds' = FALSE /\ e7' = FALSE
      /\ judged' = << >> /\ minimized' = None
  BY DEF Return
<1>2. FlagsInv' /\ PlansInv' /\ ReplicaInv' /\ E7Inv' /\ MinimizedInv'
  BY <1>1 DEF FlagsInv, PlansInv, ReplicaInv, E7Inv, MinimizedInv
<1> QED BY <1>2 DEF ArmsInv

\* The steps before the attack.
LEMMA ArmsEarly ==
  ASSUME TypeOK, ArmsInv,
         \/ StartRun \/ EnvironmentMismatch \/ MismatchLedger \/ EnvironmentMatches
         \/ ArchiveHarnesses \/ GoodArm \/ MutantArm
  PROVE  ArmsInv'
<1> USE DEF AfterReplica, AfterTwin, AfterE7, Committing
<1>1. CASE StartRun
  <2>1. /\ pc = "idle" /\ pc' = "environment"
        /\ UNCHANGED <<judged, minimized, independent, twinHolds, e7, minimizedBin>>
    BY <1>1 DEF StartRun, arms, flags, outputs
  <2>2. ~independent /\ ~twinHolds /\ ~e7 /\ judged = << >>
    BY <2>1 DEF ArmsInv, FlagsInv, PlansInv
  <2> QED BY <2>1, <2>2 DEF ArmsInv, FlagsInv, PlansInv, ReplicaInv, E7Inv, MinimizedInv
<1>2. CASE EnvironmentMismatch \/ MismatchLedger \/ EnvironmentMatches
  <2>1. /\ UNCHANGED <<memory, minimizedBin, regressionFile>>
        /\ pc \in {"environment", "mismatchLedger"}
        /\ pc' \in {"mismatchLedger", "mismatchReport", "archive"}
        /\ pc' = "archive" => pc = "environment"
    BY <1>2 DEF EnvironmentMismatch, MismatchLedger, EnvironmentMatches, Goto, outputs
  <2> QED BY <2>1, ArmsStay
<1>3. CASE \/ ArchiveHarnesses
           \/ (GoodArm \/ MutantArm) /\ pc' # "idle"
  <2>1. /\ pc \in {"archive", "good", "mutant"} /\ pc' \in {"good", "mutant", "attack"}
        /\ UNCHANGED <<spec, judged, minimized, independent, twinHolds, e7, minimizedBin>>
    BY Zenon, <1>3 DEF ArchiveHarnesses, GoodArm, MutantArm, ControlArm, FailClosed, Return, Goto,
                memory, inputs, arms, flags, outputs
  <2>2. ~independent /\ ~twinHolds /\ ~e7 /\ judged = << >>
    BY <2>1 DEF ArmsInv, FlagsInv, PlansInv
  <2>3. spec.plans \in Seq(STRING) /\ spec.plans # << >>
    BY <2>1, SpecsAssumption DEF TypeOK, InputsTypeOK, Valid
  <2>4. Len(judged) < Len(spec.plans)
    BY <2>2, <2>3, LenProperties, EmptySeq
  <2> QED BY <2>1, <2>2, <2>4 DEF ArmsInv, FlagsInv, PlansInv, ReplicaInv, E7Inv, MinimizedInv
<1>4. CASE (GoodArm \/ MutantArm) /\ pc' = "idle"
  BY <1>4, ArmsReturn DEF GoodArm, MutantArm, ControlArm, FailClosed, Goto
<1> QED BY <1>1, <1>2, <1>3, <1>4

\* One iteration of the surface loop judges one more plan.
LEMMA ArmsAttack ==
  ASSUME TypeOK, ArmsInv, AttackPlan \/ MissingGenerator \/ JudgeAttack
  PROVE  ArmsInv'
<1> USE DEF AfterReplica, AfterTwin, AfterE7, Committing
<1>1. CASE MissingGenerator \/ (AttackPlan /\ pc' = "idle")
  BY <1>1, ArmsReturn DEF MissingGenerator, AttackPlan, FailClosed, Goto
<1>2. CASE AttackPlan /\ pc' # "idle"
  <2>1. /\ pc = "attack" /\ UNCHANGED <<spec, minimized, independent, twinHolds, e7, minimizedBin>>
        /\ \E j \in Judgements : judged' = Append(judged, j)
        /\ pc' = IF Len(judged) + 1 = Len(spec.plans) THEN "judge" ELSE "attack"
    BY <1>2, OutcomeType DEF AttackPlan, FailClosed, Return, Goto, inputs, flags, outputs
  <2>2. ~independent /\ ~twinHolds /\ ~e7 /\ Len(judged) < Len(spec.plans)
    BY <2>1 DEF ArmsInv, FlagsInv, PlansInv
  <2>3. judged \in Seq(Judgements) /\ spec.plans \in Seq(STRING)
    BY <2>1, SpecsAssumption DEF TypeOK, InputsTypeOK, ArmsTypeOK, Valid
  <2>4. Len(judged) \in Nat /\ Len(spec.plans) \in Nat /\ Len(judged') = Len(judged) + 1
    BY <2>1, <2>3, LenProperties, AppendProperties
  <2>5. \/ pc' = "judge" /\ Len(judged') = Len(spec'.plans)
        \/ pc' = "attack" /\ Len(judged') < Len(spec'.plans)
    BY <2>1, <2>2, <2>4
  <2> QED BY <2>1, <2>2, <2>5 DEF ArmsInv, FlagsInv, PlansInv, ReplicaInv, E7Inv, MinimizedInv
<1>3. CASE JudgeAttack
  <2>1. /\ pc = "judge" /\ pc' \in {"copyReplica", "copyTwin"}
        /\ UNCHANGED <<spec, judged, independent, twinHolds, e7>>
        /\ \/ minimized' = minimizedBin'
           \/ UNCHANGED <<minimized, minimizedBin>>
    BY <1>3 DEF JudgeAttack, Goto, inputs, flags
  <2>2. ~independent /\ ~twinHolds /\ ~e7
    BY <2>1 DEF ArmsInv, FlagsInv
  <2> QED BY <2>1, <2>2 DEF ArmsInv, FlagsInv, PlansInv, ReplicaInv, E7Inv, MinimizedInv
<1> QED BY <1>1, <1>2, <1>3

\* With different plan names a replica arm is compared with its own plan's
\* judgement.
LEMMA ExpectedOwn ==
  ASSUME TypeOK, ArmsInv, pc = "runReplica", DistinctPlans, NEW i \in 1 .. Len(judged)
  PROVE  Expected(i) = judged[i]
<1>1. Len(judged) = Len(spec.plans) /\ spec.plans \in Seq(STRING)
  BY SpecsAssumption DEF ArmsInv, PlansInv, TypeOK, InputsTypeOK, Valid
<1>2. DOMAIN spec.plans = 1 .. Len(judged)
  BY <1>1, LenProperties
<1> DEFINE same == {k \in 1 .. Len(judged) : spec.plans[k] = spec.plans[i]}
<1>3. same = {i}
  BY <1>2 DEF DistinctPlans
<1>4. i <= i
  BY <1>1, LenProperties
<1>5. (CHOOSE k \in same : \A n \in same : k <= n) = i
  <2> HIDE DEF same
  <2> QED BY <1>3, <1>4
<1> QED BY Zenon, <1>5 DEF Expected

\* independently_reproduce: copy, run and check.
LEMMA ArmsReplica ==
  ASSUME TypeOK, ArmsInv, CopyReplica \/ RunReplica \/ ReplicaArmFails \/ CheckOriginal
  PROVE  ArmsInv'
<1> USE DEF AfterReplica, AfterTwin, AfterE7, Committing
<1>1. CASE CopyReplica \/ ReplicaArmFails
  <2>1. /\ pc \in {"copyReplica", "runReplica"} /\ UNCHANGED <<memory, minimizedBin>>
        /\ \/ pc' = "copyTwin"
           \/ pc = "copyReplica" /\ pc' = "runReplica" /\ replicaDir' = original
    BY <1>1 DEF CopyReplica, ReplicaArmFails, Goto, outputs
  <2>2. UNCHANGED <<spec, original, judged, minimized, independent, twinHolds, e7>>
    BY <2>1 DEF memory, inputs, arms, flags
  <2>3. ~independent /\ ~twinHolds /\ ~e7
    BY <2>1 DEF ArmsInv, FlagsInv
  <2> QED BY <2>1, <2>2, <2>3 DEF ArmsInv, FlagsInv, PlansInv, ReplicaInv, E7Inv, MinimizedInv
<1>2. CASE RunReplica
  <2>1. PICK again \in [1 .. Len(judged) -> Judgements] :
          IF \A i \in DOMAIN again : again[i] = Expected(i)
          THEN /\ Goto("checkOriginal")
               /\ ranOn' = [ranOn EXCEPT !.replica = replicaDir, !.replicaJudged = again]
          ELSE Goto("copyTwin") /\ UNCHANGED ranOn
    BY Zenon, <1>2 DEF RunReplica
  <2>2. /\ pc = "runReplica"
        /\ UNCHANGED <<spec, original, judged, minimized, independent, twinHolds, e7, minimizedBin>>
    BY Zenon, <1>2 DEF RunReplica, inputs, flags, outputs
  <2>3. ~independent /\ ~twinHolds /\ ~e7 /\ replicaDir = original
    BY <2>2 DEF ArmsInv, FlagsInv, ReplicaInv
  <2>4. CASE pc' = "checkOriginal"
    <3>1. \A i \in DOMAIN again : again[i] = Expected(i)
      BY <2>1, <2>4 DEF Goto
    <3>2. judged \in Seq(Judgements) /\ ranOn \in [replica : Trees, replicaJudged : Seq(Judgements),
                                                   twin : Trees, shrinkFrom : Judgements]
      BY DEF TypeOK, ArmsTypeOK
    <3>3. judged \in [1 .. Len(judged) -> Judgements]
      BY <3>2, LenProperties
    <3>4. DistinctPlans => again = judged
      <4> SUFFICES ASSUME DistinctPlans PROVE again = judged
        OBVIOUS
      <4>1. \A i \in 1 .. Len(judged) : again[i] = judged[i]
        BY <2>2, <3>1, ExpectedOwn
      <4> QED BY <3>3, <4>1
    <3>5. ranOn'.replica = replicaDir /\ ranOn'.replicaJudged = again
      BY Zenon, <2>1, <2>4, <3>2 DEF Goto
    <3>6. Reproduced'
      BY <2>2, <2>3, <3>4, <3>5 DEF Reproduced, DistinctPlans
    <3> QED
      BY <2>2, <2>3, <2>4, <3>6 DEF ArmsInv, FlagsInv, PlansInv, ReplicaInv, E7Inv, MinimizedInv
  <2>5. CASE pc' = "copyTwin"
    BY <2>2, <2>3, <2>5 DEF ArmsInv, FlagsInv, PlansInv, ReplicaInv, E7Inv, MinimizedInv
  <2> QED BY <2>1, <2>4, <2>5 DEF Goto
<1>3. CASE CheckOriginal
  <2>1. /\ pc = "checkOriginal" /\ pc' = "copyTwin"
        /\ UNCHANGED <<spec, original, judged, minimized, ranOn, twinHolds, e7, minimizedBin>>
    BY <1>3 DEF CheckOriginal, Goto, inputs, arms, outputs
  <2>2. ~twinHolds /\ ~e7 /\ Reproduced
    BY <2>1 DEF ArmsInv, FlagsInv, ReplicaInv
  <2>3. Reproduced'
    BY <2>1, <2>2 DEF Reproduced, DistinctPlans
  <2> QED BY <2>1, <2>2, <2>3 DEF ArmsInv, FlagsInv, PlansInv, ReplicaInv, E7Inv, MinimizedInv
<1> QED BY <1>1, <1>2, <1>3

\* twin_invariant_holds and try_declared_e7 leave what the replica showed.
LEMMA ArmsTwin ==
  ASSUME TypeOK, ArmsInv,
         NoTwin \/ CopyTwin \/ RunTwin \/ CheckTwin \/ TryE7 \/ SkipE7 \/ SnapshotAll
  PROVE  ArmsInv'
<1> USE DEF AfterReplica, AfterTwin, AfterE7, Committing
<1>t. ranOn \in [replica : Trees, replicaJudged : Seq(Judgements),
                 twin : Trees, shrinkFrom : Judgements]
  BY DEF TypeOK, ArmsTypeOK
<1>1. /\ UNCHANGED <<spec, original, judged, minimized, minimizedBin, independent>>
      /\ ranOn'.replica = ranOn.replica /\ ranOn'.replicaJudged = ranOn.replicaJudged
      /\ pc \in {"copyTwin", "runTwin", "checkTwin", "tryE7", "snapshotAll"}
      /\ pc' \in {"runTwin", "checkTwin", "tryE7", "snapshotAll", "conclude"}
  <2>1. CASE NoTwin \/ SkipE7
    BY <2>1 DEF NoTwin, SkipE7, Goto, memory, inputs, arms, flags, outputs
  <2>2. CASE CopyTwin
    BY <2>2 DEF CopyTwin, Goto, inputs, arms, flags, outputs
  <2>3. CASE RunTwin
    BY <1>t, <2>3 DEF RunTwin, Goto, inputs, flags, outputs
  <2>4. CASE CheckTwin \/ TryE7 \/ SnapshotAll
    BY Zenon, <2>4 DEF CheckTwin, TryE7, SnapshotAll, Goto, inputs, arms, flags, outputs
  <2> QED BY <2>1, <2>2, <2>3, <2>4
<1>2. PlansInv' /\ MinimizedInv'
  BY <1>1 DEF ArmsInv, PlansInv, MinimizedInv
<1>3. ReplicaInv'
  BY Zenon, <1>1 DEF ArmsInv, ReplicaInv, Reproduced, DistinctPlans
<1>4. FlagsInv' /\ E7Inv'
  <2>1. CASE NoTwin \/ SkipE7 \/ CopyTwin \/ RunTwin
    <3>1. /\ UNCHANGED <<twinHolds, e7>> /\ pc \in {"copyTwin", "runTwin", "tryE7"}
          /\ pc' \in {"runTwin", "checkTwin", "tryE7", "snapshotAll"}
          /\ pc = "tryE7" => pc' = "snapshotAll"
      BY <2>1 DEF NoTwin, SkipE7, CopyTwin, RunTwin, Goto, memory, flags
    <3>2. ~e7 /\ (twinHolds => pc = "tryE7")
      BY <3>1 DEF ArmsInv, FlagsInv
    <3>3. independent' => pc' \in AfterReplica
      BY <1>1
    <3> QED BY <3>1, <3>2, <3>3 DEF FlagsInv, E7Inv
  <2>2. CASE CheckTwin
    BY <1>1, <2>2 DEF CheckTwin, Goto, ArmsInv, FlagsInv, E7Inv
  <2>3. CASE TryE7
    <3>1. /\ pc = "tryE7" /\ pc' = "snapshotAll" /\ UNCHANGED <<independent, twinHolds>>
          /\ e7' => independent /\ twinHolds /\ regressionFile'
      BY Zenon, <1>1, <2>3 DEF TryE7, Goto
    <3>2. ~e7
      BY <3>1 DEF ArmsInv, FlagsInv
    <3> QED BY <3>1, <3>2 DEF FlagsInv, E7Inv
  <2>4. CASE SnapshotAll
    <3>1. /\ pc' = "conclude" /\ UNCHANGED <<twinHolds, independent, regressionFile>>
          /\ e7' => e7 /\ afterAll' = original
      BY Zenon, <2>4 DEF SnapshotAll, Goto, outputs
    <3>2. e7' => twinHolds /\ independent /\ regressionFile
      BY <3>1 DEF ArmsInv, FlagsInv
    <3> QED BY SMTT(30), <1>1, <3>1, <3>2 DEF FlagsInv, E7Inv
  <2> QED BY <2>1, <2>2, <2>3, <2>4
<1> QED BY <1>2, <1>3, <1>4 DEF ArmsInv

\* The verdict and its writes keep the measurements; the E7 events enter the
\* ledger with the verdict and stay in it.
LEMMA ArmsCommit ==
  ASSUME TypeOK, ArmsInv,
         Conclude \/ PersistLedger \/ PersistGraph \/ OpenCertificate \/ WriteCertificate
  PROVE  ArmsInv'
<1> USE DEF AfterReplica, AfterTwin, AfterE7, Committing
<1>1. CASE PersistGraph \/ OpenCertificate \/ WriteCertificate
  <2>1. /\ UNCHANGED <<memory, minimizedBin, regressionFile>>
        /\ pc \in {"persistGraph", "openCertificate", "writeCertificate"}
        /\ pc' \in {"openCertificate", "writeCertificate", "report"}
    BY <1>1 DEF PersistGraph, OpenCertificate, WriteCertificate, Goto, outputs
  <2> QED BY <2>1, ArmsStay
<1>2. CASE Conclude \/ PersistLedger
  <2>1. /\ UNCHANGED <<spec, original, afterAll, judged, minimized, ranOn, independent, twinHolds, e7>>
        /\ UNCHANGED <<minimizedBin, regressionFile>>
        /\ \/ pc = "conclude" /\ pc' = "persistLedger"
           \/ pc = "persistLedger" /\ pc' = "persistGraph"
    BY <1>2 DEF Conclude, PersistLedger, Goto, inputs, arms, flags, outputs
  <2>2. FlagsInv' /\ PlansInv' /\ MinimizedInv'
    BY <2>1 DEF ArmsInv, FlagsInv, PlansInv, MinimizedInv
  <2>3. ReplicaInv'
    BY <2>1 DEF ArmsInv, ReplicaInv, Reproduced, DistinctPlans
  <2>4. ledger \in Seq(Events)
    BY DEF TypeOK, LedgerTypeOK
  <2>5. e7 => Protected(ledger')
    <3> SUFFICES ASSUME e7 PROVE Protected(ledger')
      OBVIOUS
    <3>1. CASE Conclude
      <4> DEFINE reattack   == Event("ReattackCompleted", None)
                 regression == Event("RegressionCreated", None)
      <4>1. reattack \in Events /\ regression \in Events /\ regression.kind = "RegressionCreated"
        BY EventType DEF EventKinds, Artifacts, Event
      <4>2. ledger' = ledger \o <<reattack, regression>>
        BY <3>1 DEF Conclude
      <4> HIDE DEF reattack, regression
      <4>3. ledger' = Append(Append(ledger, reattack), regression)
        BY <2>4, <4>1, <4>2, ConcatAsAppend
      <4>4. Append(ledger, reattack) \in Seq(Events)
        BY <2>4, <4>1, AppendFacts
      <4>5. \E i \in DOMAIN ledger' : ledger'[i] = regression
        BY <4>1, <4>3, <4>4, AppendFacts
      <4> QED BY <4>1, <4>5 DEF Protected
    <3>2. CASE PersistLedger
      <4> DEFINE issued == Issued(spec.contained, original = afterAll)
      <4>1. PICK claim \in {<< >>, <<Event("AssumptionCreated", None)>>} :
              ledger' = Append(ledger \o claim, issued)
        BY Zenon, <3>2 DEF PersistLedger
      <4>2. pc = "persistLedger" /\ Protected(ledger)
        BY <3>2 DEF PersistLedger, ArmsInv, E7Inv
      <4>3. ledger \o claim \in Seq(Events)
        BY Zenon, <4>2, PersistedType
      <4>4. issued \in Events
        BY Zenon, <4>2, IssuedType, SpecsAssumption DEF Valid, TypeOK, InputsTypeOK
      <4>5. Event("AssumptionCreated", None) \in Events
        BY EventType DEF EventKinds, Artifacts
      <4>6. ledger \o claim \in {ledger, Append(ledger, Event("AssumptionCreated", None))}
        BY Zenon, <2>4, <4>5, ConcatAsAppend
      <4>7. Protected(ledger \o claim)
        BY Zenon, <2>4, <4>2, <4>5, <4>6, ProtectedGrows
      <4> HIDE DEF issued
      <4>8. Protected(Append(ledger \o claim, issued))
        BY Zenon, <4>3, <4>4, <4>7, ProtectedGrows
      <4> QED BY <4>1, <4>8
    <3> QED BY <1>2, <3>1, <3>2
  <2>6. E7Inv'
    BY <2>1, <2>5 DEF ArmsInv, E7Inv
  <2> QED BY <2>2, <2>3, <2>6 DEF ArmsInv
<1> QED BY <1>1, <1>2

\* No step of a run, no abort and no edit of the trees breaks what was measured.
LEMMA ArmsNext == ASSUME TypeOK, ArmsInv, [Next]_vars PROVE ArmsInv'
<1>1. CASE Drift \/ Finished \/ UNCHANGED vars
  <2>1. UNCHANGED <<pc, memory, minimizedBin, regressionFile, replicaDir>>
    BY <1>1 DEF Drift, Finished, vars, outputs, copies
  <2> QED BY <2>1, ArmsStay
<1>2. CASE MismatchReport \/ RefuseCertificate \/ WriteReport \/ Abort
  BY <1>2, ArmsReturn DEF MismatchReport, RefuseCertificate, WriteReport, Abort
<1>3. CASE \/ StartRun \/ EnvironmentMismatch \/ MismatchLedger \/ EnvironmentMatches
           \/ ArchiveHarnesses \/ GoodArm \/ MutantArm
  BY <1>3, ArmsEarly
<1>4. CASE AttackPlan \/ MissingGenerator \/ JudgeAttack
  BY <1>4, ArmsAttack
<1>5. CASE CopyReplica \/ RunReplica \/ ReplicaArmFails \/ CheckOriginal
  BY <1>5, ArmsReplica
<1>6. CASE NoTwin \/ CopyTwin \/ RunTwin \/ CheckTwin \/ TryE7 \/ SkipE7 \/ SnapshotAll
  BY <1>6, ArmsTwin
<1>7. CASE Conclude \/ PersistLedger \/ PersistGraph \/ OpenCertificate \/ WriteCertificate
  BY <1>7, ArmsCommit
<1> QED BY <1>1, <1>2, <1>3, <1>4, <1>5, <1>6, <1>7 DEF Next, RunStep

(***************************************************************************)
(* The measurements of a run at every point of it, for any specification   *)
(* and any edits of the trees: the surface loop judges every plan, E4 is   *)
(* held only over a replica with the original's digest, E7 only on top of  *)
(* both and, from the last snapshot on, over an unchanged target.          *)
(***************************************************************************)
THEOREM MeasurementsHold == Spec => []ArmsInv
<1>1. Init => ArmsInv
  BY DEF Init, ArmsInv, FlagsInv, PlansInv, ReplicaInv, E7Inv, MinimizedInv
<1>2. TypeOK /\ ArmsInv /\ [Next]_vars => ArmsInv'
  BY ArmsNext
<1> QED BY <1>1, <1>2, TypeCorrect, PTL DEF Spec

(***************************************************************************)
(* E4 means what it says, for any plans and trees: a run that holds        *)
(* `independent' has run its arms again on a tree with the original's      *)
(* digest, and with different plan names every one came out as before.     *)
(***************************************************************************)
THEOREM ReplicaIsAlwaysOriginal == Spec => []ReplicaIsOriginal
<1>1. ArmsInv => ReplicaIsOriginal
  BY DEF ArmsInv, ReplicaInv, Reproduced, DistinctPlans, ReplicaIsOriginal
<1> QED BY <1>1, MeasurementsHold, PTL

-----------------------------------------------------------------------------
(* What the certificate on disk says *)

\* regression.sh, once written, stays.
LEMMA RegressionStays ==
  ASSUME [Next]_vars PROVE regressionFile => regressionFile'
<1>1. CASE TryE7
  BY Zenon, <1>1 DEF TryE7
<1>2. CASE JudgeAttack
  BY <1>2 DEF JudgeAttack
<1>3. CASE OpenCertificate \/ WriteCertificate \/ WriteReport \/ MismatchReport
  BY Zenon, <1>3 DEF OpenCertificate, WriteCertificate, WriteReport, MismatchReport
<1>4. CASE GoodArm \/ MutantArm \/ MissingGenerator \/ AttackPlan
  BY Zenon, <1>4 DEF GoodArm, MutantArm, ControlArm, MissingGenerator, AttackPlan, outputs
<1>5. CASE \/ StartRun \/ EnvironmentMismatch \/ MismatchLedger \/ EnvironmentMatches
           \/ ArchiveHarnesses \/ CopyReplica \/ RunReplica \/ ReplicaArmFails \/ CheckOriginal
  BY Zenon, <1>5 DEF StartRun, EnvironmentMismatch, MismatchLedger, EnvironmentMatches,
              ArchiveHarnesses, CopyReplica, RunReplica, ReplicaArmFails, CheckOriginal, outputs
<1>6. CASE \/ NoTwin \/ CopyTwin \/ RunTwin \/ CheckTwin \/ SkipE7 \/ SnapshotAll \/ Conclude
           \/ PersistLedger \/ PersistGraph \/ RefuseCertificate
  BY Zenon, <1>6 DEF NoTwin, CopyTwin, RunTwin, CheckTwin, SkipE7, SnapshotAll, Conclude,
              PersistLedger, PersistGraph, RefuseCertificate, outputs
<1>7. CASE Abort \/ Drift \/ Finished \/ UNCHANGED vars
  BY Zenon, <1>7 DEF Abort, Drift, Finished, vars, outputs
<1> QED BY <1>1, <1>2, <1>3, <1>4, <1>5, <1>6, <1>7 DEF Next, RunStep

\* What the certificate being written says of E7 and of release.
LEMMA NewCertificateEarned ==
  ASSUME TypeOK, ArmsInv, WriteCertificate
  PROVE  TopLevelEarned'
<1>1. /\ pc = "writeCertificate" /\ certificate' = NewCertificate /\ UNCHANGED regressionFile
  BY DEF WriteCertificate
<1>2. /\ NewCertificate.level = Level /\ NewCertificate.m = Measured
      /\ NewCertificate.original = original /\ NewCertificate.after = afterAll
      /\ NewCertificate.head = ledger /\ NewCertificate.contained = spec.contained
      /\ NewCertificate.met = Met
      /\ NewCertificate.release = (spec.contained /\ original = afterAll /\ Met)
  BY DEF NewCertificate
<1>3. Level = 7 => e7
  BY DEF Level, RawLevel, Measured, Attack, Holds, Indeterminate, Judgement, Overall
<1>4. Measured.independent = independent /\ Measured.twinHolds = twinHolds
  BY DEF Measured
<1>5. e7 => /\ original = afterAll /\ regressionFile /\ independent /\ twinHolds
            /\ Protected(ledger)
  BY <1>1 DEF ArmsInv, FlagsInv, E7Inv, Committing
<1>6. certificate'.level = 7 =>
         /\ certificate'.original = certificate'.after /\ regressionFile'
         /\ certificate'.m.independent /\ certificate'.m.twinHolds
         /\ Protected(certificate'.head)
  BY <1>1, <1>2, <1>3, <1>4, <1>5
<1>7. certificate'.release =>
         certificate'.met /\ certificate'.contained /\ certificate'.original = certificate'.after
  BY Zenon, <1>1, <1>2
<1> QED BY <1>6, <1>7 DEF TopLevelEarned, Protected

(***************************************************************************)
(* The top of the ladder is never kept after the target moved: for any     *)
(* runs and edits an E7 certificate has equal digests, its regression      *)
(* script on disk and both E7 events in its ledger, and a release-eligible *)
(* one was contained, met its requirement and has equal digests.           *)
(***************************************************************************)
THEOREM TopLevelAlwaysEarned == Spec => []TopLevelEarned
<1>1. Init => TopLevelEarned
  BY DEF Init, TopLevelEarned, Certified
<1>2. TypeOK /\ ArmsInv /\ TopLevelEarned /\ [Next]_vars => TopLevelEarned'
  <2> SUFFICES ASSUME TypeOK, ArmsInv, TopLevelEarned, [Next]_vars PROVE TopLevelEarned'
    OBVIOUS
  <2>1. CASE UNCHANGED certificate
    BY <2>1, RegressionStays DEF TopLevelEarned, Certified
  <2>2. CASE OpenCertificate
    BY <2>2 DEF OpenCertificate, TopLevelEarned, Certified
  <2>3. CASE WriteCertificate
    BY <2>3, NewCertificateEarned
  <2> QED BY <2>1, <2>2, <2>3, CertificateFrame
<1> QED BY <1>1, <1>2, TypeCorrect, MeasurementsHold, PTL DEF Spec

\* The run has written its certificate, and no other has started.
Delivered ==
  \/ pc = "report"
  \/ pc = "idle" /\ cid > 0 /\ result[cid] = "ok" /\ campaigns[cid] # "Failed"

\* write_certificate refused what verify_certificate would; from then on the
\* certificate is this run's and verifies.
DeliveryInv ==
  /\ pc = "writeCertificate" => ClaimsMatchLevel(Level, Measured, e7)
  /\ Delivered => StatementOk /\ certificate.cid = cid

\* The certificate that write_certificate has just written verifies.
LEMMA NewCertificateVerifies ==
  ASSUME TypeOK, CommitInvariant, ArmsInv, DeliveryInv, WriteCertificate
  PROVE  StatementOk' /\ certificate'.cid = cid'
<1>1. /\ pc = "writeCertificate" /\ certificate' = NewCertificate
      /\ UNCHANGED <<cid, regressionFile, minimizedBin>>
  BY DEF WriteCertificate, Goto
<1>2. Certified'
  BY <1>1, CertificateType, NoCertificateAssumption DEF Certified
<1>3. CheckLedger(certificate)'
  BY <1>2, NewCertificateBacked DEF CertificateBacked
<1>4. /\ NewCertificate.cid = cid /\ NewCertificate.level = Level
      /\ NewCertificate.m = Measured /\ NewCertificate.minimized = minimized
      /\ NewCertificate.original = original /\ NewCertificate.after = afterAll
      /\ NewCertificate.contained = spec.contained /\ NewCertificate.met = Met
      /\ NewCertificate.release = (spec.contained /\ original = afterAll /\ Met)
  BY DEF NewCertificate
<1>5. Measured.e7 = e7
  BY DEF Measured
<1>6. ClaimsMatchLevel(Level, Measured, e7)
  BY <1>1 DEF DeliveryInv
<1>7. ClaimsMatchLevel(certificate'.level, certificate'.m, certificate'.m.e7)
  BY <1>1, <1>4, <1>5, <1>6
<1>8. certificate'.m.e7 => regressionFile'
  BY <1>1, <1>4, <1>5 DEF ArmsInv, FlagsInv
<1>9. certificate'.minimized # None => minimizedBin' = certificate'.minimized
  BY <1>1, <1>4 DEF ArmsInv, MinimizedInv
<1>10. certificate'.release => /\ certificate'.contained /\ certificate'.met
                               /\ certificate'.original = certificate'.after
  BY Zenon, <1>1, <1>4
<1> QED BY <1>1, <1>2, <1>3, <1>4, <1>7, <1>8, <1>9, <1>10 DEF StatementOk

\* A statement that verifies goes on doing so while neither the store nor the
\* work directory changes.
LEMMA StatementStays ==
  ASSUME StatementOk, UNCHANGED <<store, certificate, minimizedBin, regressionFile>>
  PROVE  StatementOk'
  BY DEF StatementOk, Certified, CheckLedger, store

\* No step takes a delivered certificate back before the next run.
LEMMA DeliveryNext ==
  ASSUME TypeOK, CommitInvariant, ArmsInv, DeliveryInv, [Next]_vars
  PROVE  DeliveryInv'
<1> USE RunningLabels DEF Committing, Mismatching
<1>t. /\ (pc # "idle" => cid \in Runs) /\ result \in [Runs -> {None, "running", "ok", "err"}]
  BY DEF TypeOK, ControlTypeOK
<1>1. CASE Drift \/ Finished \/ UNCHANGED vars
  <2>1. UNCHANGED <<pc, cid, result, memory, store, certificate, minimizedBin, regressionFile>>
    BY <1>1 DEF Drift, Finished, vars, outputs
  <2>2. Delivered' = Delivered
    BY <2>1 DEF Delivered, store
  <2>3. UNCHANGED <<Level, Measured, e7>>
    BY Zenon, <2>1 DEF memory, flags, arms, Level, Measured, Judgement
  <2> QED BY <2>1, <2>2, <2>3, StatementStays DEF DeliveryInv
<1>2. CASE WriteReport
  <2>1. /\ pc = "report" /\ pc' = "idle" /\ UNCHANGED <<cid, store, certificate, minimizedBin, regressionFile>>
    BY <1>2 DEF WriteReport, Return
  <2> QED BY <2>1, StatementStays DEF DeliveryInv, Delivered
<1>3. CASE MismatchReport
  <2>1. /\ pc = "mismatchReport" /\ pc' = "idle" /\ UNCHANGED <<cid, campaigns>>
    BY <1>3 DEF MismatchReport, Return, store
  <2>2. campaigns[cid] = "Failed"
    BY <2>1 DEF CommitInvariant, RowInv
  <2> QED BY <2>1, <2>2 DEF DeliveryInv, Delivered
<1>4. CASE \/ RefuseCertificate \/ Abort
           \/ (GoodArm \/ MutantArm \/ MissingGenerator \/ AttackPlan) /\ pc' = "idle"
  <2>1. pc' = "idle" /\ cid' = cid /\ result'[cid] = "err"
    BY <1>4, <1>t DEF GoodArm, MutantArm, ControlArm, MissingGenerator, AttackPlan,
                      FailClosed, RefuseCertificate, Abort, Goto, Return
  <2> QED BY <2>1 DEF DeliveryInv, Delivered
<1>5. CASE \/ StartRun \/ EnvironmentMismatch \/ MismatchLedger \/ EnvironmentMatches
           \/ ArchiveHarnesses \/ JudgeAttack \/ Conclude \/ PersistLedger \/ PersistGraph
           \/ (GoodArm \/ MutantArm \/ MissingGenerator \/ AttackPlan) /\ pc' # "idle"
  <2>1. pc' \notin {"idle", "report", "writeCertificate"}
    BY Zenon, <1>5 DEF StartRun, EnvironmentMismatch, MismatchLedger, EnvironmentMatches,
                ArchiveHarnesses, JudgeAttack, Conclude, PersistLedger, PersistGraph, GoodArm,
                MutantArm, ControlArm, MissingGenerator, AttackPlan, FailClosed, Return, Goto
  <2> QED BY <2>1 DEF DeliveryInv, Delivered
<1>8. CASE \/ CopyReplica \/ RunReplica \/ ReplicaArmFails \/ CheckOriginal \/ NoTwin \/ CopyTwin
           \/ RunTwin \/ CheckTwin \/ TryE7 \/ SkipE7 \/ SnapshotAll
  <2>1. pc' \notin {"idle", "report", "writeCertificate"}
    BY Zenon, <1>8 DEF CopyReplica, RunReplica, ReplicaArmFails, CheckOriginal, NoTwin, CopyTwin,
                RunTwin, CheckTwin, TryE7, SkipE7, SnapshotAll, Goto
  <2> QED BY <2>1 DEF DeliveryInv, Delivered
<1>6. CASE OpenCertificate
  <2>1. pc' = "writeCertificate" /\ ClaimsMatchLevel(Level, Measured, e7) /\ UNCHANGED memory
    BY <1>6 DEF OpenCertificate, Goto
  <2>2. UNCHANGED <<Level, Measured, e7>>
    BY Zenon, <2>1 DEF memory, flags, arms, Level, Measured, Judgement
  <2> QED BY <2>1, <2>2 DEF DeliveryInv, Delivered
<1>7. CASE WriteCertificate
  <2>1. pc' = "report"
    BY <1>7 DEF WriteCertificate, Goto
  <2> QED BY <1>7, <2>1, NewCertificateVerifies DEF DeliveryInv
<1> QED
  BY <1>1, <1>2, <1>3, <1>4, <1>5, <1>6, <1>7, <1>8 DEF Next, RunStep

(***************************************************************************)
(* A run that returned Ok with a verdict leaves a certificate of its own   *)
(* that verify_certificate accepts until the next run starts, whatever     *)
(* earlier runs left in the work directory.                                *)
(***************************************************************************)
THEOREM OkRunAlwaysVerifies == Spec => []OkRunVerifies
<1>1. Init => DeliveryInv
  BY SMTT(60) DEF Init, DeliveryInv, Delivered
<1>2. TypeOK /\ CommitInvariant /\ ArmsInv /\ DeliveryInv /\ [Next]_vars => DeliveryInv'
  BY DeliveryNext
<1>3. DeliveryInv => OkRunVerifies
  BY DEF DeliveryInv, Delivered, OkRunVerifies
<1> QED BY <1>1, <1>2, <1>3, TypeCorrect, CommitOrder, MeasurementsHold, PTL DEF Spec
=============================================================================
