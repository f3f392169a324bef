------------------------ MODULE FixtureCampaignProofs ------------------------
(***************************************************************************)
(* Proofs about fixture campaigns, for any requests, work roots, trees and *)
(* edits: what is called verified, a differential or complete is, and the  *)
(* store never says otherwise.                                             *)
(***************************************************************************)
EXTENDS FixtureCampaign, SequenceTheorems, TLAPS

\* Before and after the verifier's word, and while the verdict is stored.
Before  == {"idle", "open", "research", "verdict", "authority"} \cup Verifying
After   == {"minimize", "twin", "patch", "check", "reattack"}
Storing == {"row", "ledger", "graph", "final"}

Complete(log) == log[Len(log)] = "CampaignCompleted"

\* What a run may have in memory at each point.
Memory(x) ==
  /\ x.pc \in Before => ~x.verified /\ x.level <= 3
  /\ x.pc \in After => x.level <= 5
  /\ x.pc = "regression" => x.level = 6
  /\ x.pc \in {"idle", "open"} => x.verdict = "none"
  /\ x.pc \in {"replay", "after"} \/ x.verdict = "accepted" => x.copy = x.original
  /\ x.verdict = "accepted" => x.copy \in Leaks
  /\ x.pc \in {"authority", "regression"} \cup After \/ x.verified \/ x.level >= 4
       => x.verdict = "accepted"
  /\ x.level >= 6 => TwinHolds(x.twin)
  /\ x.pc \notin {"idle", "open"} \cup Ended =>
       x.log # << >> /\ (Complete(x.log) <=> x.state = "RegressionProtected")
  /\ x.pc \notin Storing \cup Ended => x.state = "Running"

\* What is stored of it at each point; a run that ended has stored a beginning.
Story(x, inRow, inLedger, inGraph) ==
  /\ x.pc \notin {"ledger", "graph", "final"} \cup Ended =>
       inRow = "none" /\ inLedger = << >> /\ ~inGraph
  /\ x.pc = "ledger" => inRow = x.state /\ inLedger = << >> /\ ~inGraph
  /\ x.pc \in {"graph", "final"} => inRow = x.state /\ inLedger = x.log
  /\ x.pc = "graph" => ~inGraph
  /\ x.pc = "final" => inGraph
  /\ inLedger # << >> =>
       inRow # "none" /\ (Complete(inLedger) <=> inRow = "RegressionProtected")
  /\ inGraph => inLedger # << >>
  /\ x.pc = "ok" => inGraph /\ inRow = x.state

\* A run alone in its work root finds its twin directory as it left it.
Alone(r) == \A s \in Runs \ {r} : rootOf[s] # rootOf[r]

Patch(r, x) ==
  /\ x.pc = "reattack" => x.patch = Twin(r)
  /\ x.level >= 6 => x.twin = x.patch

Types ==
  /\ rootOf \in WorkRoots /\ target \in Trees /\ twinDir \in [Roots -> MaybeTree]
  /\ run \in [Runs -> RunType] /\ row \in [Runs -> States \cup {"none"}]
  /\ stored \in [Runs -> Seq(Entries)] /\ graph \subseteq Runs

IInv ==
  /\ Types
  /\ \A r \in Runs : /\ Memory(run[r]) /\ Story(run[r], row[r], stored[r], r \in graph)
                     /\ Alone(r) => Patch(r, run[r])

-----------------------------------------------------------------------------
(***************************************************************************)
(* One run moves and the others keep what they have.                       *)
(***************************************************************************)
\* A work root that a run names is one of Roots.
LEMMA NamedRoot ==
  ASSUME Types, NEW r \in Runs
  PROVE  rootOf[r] \in Roots
BY DEF Types, Roots

\* A step of run r that leaves the rest of the store and the twin directories
\* of other roots alone keeps IInv if it does for r; a run alone in its root
\* cannot have lost its twin to it.
LEMMA OneRun ==
  ASSUME IInv, NEW r \in Runs, NEW x \in RunType,
         run' = [run EXCEPT ![r] = x], rootOf' = rootOf, target' = target,
         twinDir' \in [Roots -> MaybeTree],
         \A w \in Roots \ {rootOf[r]} : twinDir'[w] = twinDir[w],
         row' \in [Runs -> States \cup {"none"}], stored' \in [Runs -> Seq(Entries)],
         graph' \subseteq Runs,
         \A s \in Runs \ {r} : /\ row'[s] = row[s] /\ stored'[s] = stored[s]
                               /\ s \in graph' <=> s \in graph,
         Memory(x), Story(x, row'[r], stored'[r], r \in graph'),
         Alone(r) => /\ x.pc = "reattack" => x.patch = twinDir'[rootOf[r]]
                     /\ x.level >= 6 => x.twin = x.patch
  PROVE  IInv'
<1>1. Types'
  BY Zenon DEF IInv, Types
<1>2. run'[r] = x /\ \A s \in Runs \ {r} : run'[s] = run[s]
  BY DEF IInv, Types
<1>3. ASSUME NEW s \in Runs
      PROVE  /\ Memory(run'[s]) /\ Story(run'[s], row'[s], stored'[s], s \in graph')
             /\ Alone(s)' => Patch(s, run[s])'
  <2>1. CASE s = r
    BY <1>2, <2>1 DEF Alone, Patch, Twin
  <2>2. CASE s # r
    <3>1. run'[s] = run[s] /\ row'[s] = row[s] /\ stored'[s] = stored[s]
          /\ (s \in graph') = (s \in graph)
      BY <1>2, <2>2
    <3>2. Memory(run'[s]) /\ Story(run'[s], row'[s], stored'[s], s \in graph')
      BY <3>1 DEF IInv
    <3>3. ASSUME Alone(s)' PROVE Patch(s, run[s])'
      <4>1. Alone(s) /\ rootOf[s] \in Roots \ {rootOf[r]}
        BY <2>2, <3>3, NamedRoot DEF Alone, IInv
      <4>2. Patch(s, run[s]) /\ Twin(s)' = Twin(s)
        BY <4>1 DEF IInv, Twin
      <4> QED
        BY <3>1, <4>2 DEF Patch
    <3> QED
      BY <3>2, <3>3
  <2> QED
    BY <2>1, <2>2
<1> QED
  BY <1>1, <1>3 DEF IInv, Memory

\* The same for a step that only changes what r holds in memory.
LEMMA InMemory ==
  ASSUME IInv, NEW r \in Runs, NEW x \in RunType, run' = [run EXCEPT ![r] = x],
         UNCHANGED <<rootOf, target, edits, twinDir, store>>,
         Memory(x), Story(x, row[r], stored[r], r \in graph), Alone(r) => Patch(r, x)
  PROVE  IInv'
<1>1. /\ rootOf' = rootOf /\ target' = target /\ twinDir' = twinDir
      /\ row' = row /\ stored' = stored /\ graph' = graph
  BY DEF store
<1>2. Types
  BY DEF IInv
<1>3. Alone(r) => /\ x.pc = "reattack" => x.patch = twinDir'[rootOf[r]]
                  /\ x.level >= 6 => x.twin = x.patch
  BY <1>1 DEF Patch, Twin
<1>4. Story(x, row'[r], stored'[r], r \in graph')
  BY <1>1
<1> QED
  BY <1>1, <1>2, <1>3, <1>4, OneRun, Zenon DEF Types

\* A run that has not begun holds nothing.
LEMMA IdleRun ==
  /\ Idle \in RunType /\ Idle.pc = "idle" /\ Idle.level = 0 /\ Idle.verified = FALSE
  /\ Idle.verdict = "none" /\ Idle.state = "Running"
BY DEF Idle, RunType, KindsOfRun, States, Verdicts, MaybeTree

\* A run that has ended holds nothing, and what it stored was consistent.
LEMMA Ends ==
  ASSUME IInv, NEW r \in Runs, NEW pc \in {"err", "panicked", "crashed"}
  PROVE  /\ Lost(pc) \in RunType /\ Memory(Lost(pc)) /\ Patch(r, Lost(pc))
         /\ Story(Lost(pc), row[r], stored[r], r \in graph)
<1>1. /\ Lost(pc).pc = pc /\ Lost(pc).level = 0 /\ ~Lost(pc).verified
      /\ Lost(pc).verdict = "none"
  BY IdleRun DEF Lost, RunType
<1>2. Lost(pc) \in RunType
  BY IdleRun DEF Lost, RunType, Ended
<1>3. Memory(Lost(pc)) /\ Patch(r, Lost(pc))
  BY <1>1 DEF Memory, Patch, Before, After, Verifying, Ended
<1>4. Story(run[r], row[r], stored[r], r \in graph)
  BY DEF IInv
<1>5. Story(Lost(pc), row[r], stored[r], r \in graph)
  BY <1>1, <1>4 DEF Story, Ended
<1> QED
  BY <1>2, <1>3, <1>5

\* A run may fail at any point.
LEMMA FailStep ==
  ASSUME IInv, NEW r \in Runs, Fail(r),
         UNCHANGED <<rootOf, target, edits, twinDir, store>>
  PROVE  IInv'
BY Ends, InMemory, Zenon DEF Fail

\* What IInv says of one run.
LEMMA Held ==
  ASSUME IInv, NEW r \in Runs
  PROVE  /\ run[r] \in RunType /\ Memory(run[r]) /\ target \in Trees
         /\ Story(run[r], row[r], stored[r], r \in graph)
         /\ Alone(r) => Patch(r, run[r])
BY DEF IInv, Types

\* Before the campaign row is written there is nothing to tell.
LEMMA NothingStored ==
  ASSUME IInv, NEW r \in Runs, NEW x \in RunType, run' = [run EXCEPT ![r] = x],
         UNCHANGED <<rootOf, target, edits, twinDir, store>>,
         run[r].pc \notin {"ledger", "graph", "final"} \cup Ended,
         x.pc \notin {"ledger", "graph", "final"} \cup Ended,
         Memory(x), Alone(r) => Patch(r, x)
  PROVE  IInv'
<1>1. Story(x, row[r], stored[r], r \in graph)
  BY Held DEF Story, Ended
<1> QED
  BY <1>1, InMemory, Zenon

\* The ledger in memory grows by one entry.
LEMMA Logged ==
  ASSUME NEW log \in Seq(Entries), NEW entry \in Entries
  PROVE  /\ Append(log, entry) \in Seq(Entries) /\ Append(log, entry) # << >>
         /\ Complete(Append(log, entry)) <=> entry = "CampaignCompleted"
BY DEF Complete

\* Or by the two that complete the campaign.
LastTwo == <<"ReattackCompleted", "CampaignCompleted">>

\* A ledger that ends in them is complete.
LEMMA Finished ==
  ASSUME NEW log \in Seq(Entries)
  PROVE  /\ log \o LastTwo \in Seq(Entries)
         /\ log \o LastTwo # << >> /\ Complete(log \o LastTwo)
<1>1. LastTwo \in Seq(Entries) /\ Len(LastTwo) = 2 /\ LastTwo[2] = "CampaignCompleted"
  BY DEF LastTwo, Entries
<1>2. log \o LastTwo \in Seq(Entries) /\ Len(log \o LastTwo) = Len(log) + 2
  <2>1. /\ log \o LastTwo \in Seq(Entries)
        /\ Len(log \o LastTwo) = Len(log) + Len(LastTwo)
    BY <1>1, ConcatProperties, Zenon
  <2> QED
    BY <1>1, <2>1
<1>3. (log \o LastTwo)[Len(log) + 2] = LastTwo[2]
  BY <1>1, ConcatProperties
<1> QED
  BY <1>1, <1>2, <1>3 DEF Complete

-----------------------------------------------------------------------------
(***************************************************************************)
(* The engine up to a candidate finding, and the verifier.                 *)
(***************************************************************************)
\* A run begins with nothing in memory but the process it attacks.
LEMMA BeginStep ==
  ASSUME IInv, NEW r \in Runs, NEW kind \in KindsOfRun, Begin(r, kind)
  PROVE  IInv'
<1>1. CASE target \in Starts
  <2> DEFINE x ==
      [run[r] EXCEPT !.kind = kind, !.serving = target, !.pc = "open"]
  <2>1. run[r] \in RunType /\ Memory(run[r]) /\ target \in Trees
    BY Held
  <2>2. /\ run' = [run EXCEPT ![r] = x] /\ run[r].pc = "idle"
        /\ UNCHANGED <<rootOf, target, edits, twinDir, store>>
    BY <1>1, Zenon DEF Begin, At, IInv, Types
  <2>4. x \in RunType
    BY <2>1, <2>2, Zenon DEF RunType, MaybeTree, Engine
  <2>5. Memory(x)
    BY <2>1, <2>2 DEF Memory, RunType, Before, After, Storing, Verifying, Ended
  <2>6. Alone(r) => Patch(r, x)
    BY <2>1, <2>2, Held
       DEF Patch, Memory, RunType, Before, After, Storing, Verifying, Ended
  <2>7. /\ run[r].pc \notin {"ledger", "graph", "final"} \cup Ended
        /\ x.pc \notin {"ledger", "graph", "final"} \cup Ended
    BY <2>1, <2>2 DEF RunType, Verifying, Ended
  <2> HIDE DEF x
  <2> QED
    BY <2>2, <2>4, <2>5, <2>6, <2>7, NothingStored, Zenon
<1>2. CASE target \notin Starts
  BY <1>2, FailStep DEF Begin
<1> QED
  BY <1>1, <1>2

\* The snapshot is taken while there is no verdict that could be about another.
LEMMA OpenStep ==
  ASSUME IInv, NEW r \in Runs, Open(r)
  PROVE  IInv'
<1> DEFINE x ==
    [run[r] EXCEPT !.original = target, !.log = <<"CampaignStarted">>,
                   !.pc = "research"]
<1>1. run[r] \in RunType /\ Memory(run[r]) /\ target \in Trees
  BY Held
<1>2. /\ run' = [run EXCEPT ![r] = x] /\ run[r].pc = "open"
      /\ UNCHANGED <<rootOf, target, edits, twinDir, store>>
  BY Zenon DEF Open, At, IInv, Types
<1>3. /\ <<"CampaignStarted">> \in Seq(Entries) /\ <<"CampaignStarted">> # << >>
      /\ ~Complete(<<"CampaignStarted">>)
  BY DEF Entries, Complete
<1>4. x \in RunType
  BY <1>1, <1>2, <1>3, Zenon DEF RunType, MaybeTree, Engine
<1>5. Memory(x)
  BY <1>1, <1>2, <1>3 DEF Memory, RunType, Before, After, Storing, Verifying, Ended
<1>6. Alone(r) => Patch(r, x)
  BY <1>1, <1>2, Held
     DEF Patch, Memory, RunType, Before, After, Storing, Verifying, Ended
<1>7. /\ run[r].pc \notin {"ledger", "graph", "final"} \cup Ended
      /\ x.pc \notin {"ledger", "graph", "final"} \cup Ended
  BY <1>1, <1>2 DEF RunType, Verifying, Ended
<1> HIDE DEF x
<1> QED
  BY <1>2, <1>4, <1>5, <1>6, <1>7, NothingStored, Zenon

\* The observation refutes, panics or makes a candidate of level 3.
LEMMA ResearchStep ==
  ASSUME IInv, NEW r \in Runs, Research(r)
  PROVE  IInv'
<1>1. CASE run[r].serving \notin Leaks
  <2>0. run' = [run EXCEPT ![r].state = "Refuted",
                           ![r].log = Append(@, "FindingFalsified"), ![r].pc = "row"]
    BY <1>1 DEF Research
  <2> DEFINE x ==
      [run[r] EXCEPT !.state = "Refuted",
                     !.log = Append(run[r].log, "FindingFalsified"), !.pc = "row"]
  <2>1. run[r] \in RunType /\ Memory(run[r]) /\ target \in Trees
    BY Held
  <2>2. /\ run' = [run EXCEPT ![r] = x] /\ run[r].pc = "research"
        /\ UNCHANGED <<rootOf, target, edits, twinDir, store>>
    BY <2>0, Zenon DEF Research, At, IInv, Types
  <2>3. /\ Append(run[r].log, "FindingFalsified") \in Seq(Entries)
        /\ Append(run[r].log, "FindingFalsified") # << >>
        /\ ~Complete(Append(run[r].log, "FindingFalsified"))
    BY <2>1, Logged DEF RunType, Entries
  <2>4. x \in RunType
    BY <2>1, <2>2, <2>3, Zenon DEF RunType, States, Engine
  <2>5. Memory(x)
    BY <2>1, <2>2, <2>3 DEF Memory, RunType, Before, After, Storing, Verifying, Ended
  <2>6. Alone(r) => Patch(r, x)
    BY <2>1, <2>2, Held
       DEF Patch, Memory, RunType, Before, After, Storing, Verifying, Ended
  <2>7. /\ run[r].pc \notin {"ledger", "graph", "final"} \cup Ended
        /\ x.pc \notin {"ledger", "graph", "final"} \cup Ended
    BY <2>1, <2>2 DEF RunType, Verifying, Ended
  <2> HIDE DEF x
  <2> QED
    BY <2>2, <2>4, <2>5, <2>6, <2>7, NothingStored, Zenon
<1>2. CASE run[r].serving \in Leaks /\ run[r].kind = "control"
  BY <1>2, Ends, InMemory, Zenon DEF Research
<1>3. CASE run[r].serving \in Leaks /\ run[r].kind # "control"
  <2> DEFINE x ==
      [run[r] EXCEPT !.level = 3, !.pc = "before",
                     !.log = Append(run[r].log, "FindingCandidateCreated")]
  <2>1. run[r] \in RunType /\ Memory(run[r]) /\ target \in Trees
    BY Held
  <2>2. /\ run' = [run EXCEPT ![r] = x] /\ run[r].pc = "research"
        /\ UNCHANGED <<rootOf, target, edits, twinDir, store>>
    BY <1>3, Zenon DEF Research, At, IInv, Types
  <2>3. /\ Append(run[r].log, "FindingCandidateCreated") \in Seq(Entries)
        /\ Append(run[r].log, "FindingCandidateCreated") # << >>
        /\ ~Complete(Append(run[r].log, "FindingCandidateCreated"))
    BY <2>1, Logged DEF RunType, Entries
  <2>4. x \in RunType
    <3>1. 3 \in 0 .. 7
      OBVIOUS
    <3> QED
      BY <2>1, <2>2, <2>3, <3>1, Zenon DEF RunType, Verifying
  <2>5. Memory(x)
    BY <2>1, <2>2, <2>3 DEF Memory, RunType, Before, After, Storing, Verifying, Ended
  <2>6. Alone(r) => Patch(r, x)
    BY <2>1, <2>2, Held
       DEF Patch, Memory, RunType, Before, After, Storing, Verifying, Ended
  <2>7. /\ run[r].pc \notin {"ledger", "graph", "final"} \cup Ended
        /\ x.pc \notin {"ledger", "graph", "final"} \cup Ended
    BY <2>1, <2>2 DEF RunType, Verifying, Ended
  <2> HIDE DEF x
  <2> QED
    BY <2>2, <2>4, <2>5, <2>6, <2>7, NothingStored, Zenon
<1> QED
  BY <1>1, <1>2, <1>3

\* The verifier's report takes the run back to the engine; an accepted one has
\* to be about a copy that equals the snapshot and leaks.
LEMMA ReportStep ==
  ASSUME IInv, NEW r \in Runs, NEW v \in Verdicts, Report(r, v), run[r].pc \in Verifying,
         v = "accepted" => run[r].copy = run[r].original /\ run[r].copy \in Leaks,
         UNCHANGED <<rootOf, target, edits, twinDir, store>>
  PROVE  IInv'
<1> DEFINE x ==
    [run[r] EXCEPT !.verdict = v, !.pc = "verdict"]
<1>1. run[r] \in RunType /\ Memory(run[r]) /\ target \in Trees
  BY Held
<1>2. /\ run' = [run EXCEPT ![r] = x] /\ run[r].pc \in Verifying
      /\ UNCHANGED <<rootOf, target, edits, twinDir, store>>
  BY Zenon DEF Report, At, IInv, Types
<1>4. x \in RunType
  BY <1>1, <1>2, Zenon DEF RunType, Engine
<1>5. Memory(x)
  BY <1>1, <1>2 DEF Memory, RunType, Before, After, Storing, Verifying, Ended
<1>6. Alone(r) => Patch(r, x)
  BY <1>1, <1>2, Held
     DEF Patch, Memory, RunType, Before, After, Storing, Verifying, Ended
<1>7. /\ run[r].pc \notin {"ledger", "graph", "final"} \cup Ended
      /\ x.pc \notin {"ledger", "graph", "final"} \cup Ended
  BY <1>1, <1>2 DEF RunType, Verifying, Ended
<1> HIDE DEF x
<1> QED
  BY <1>2, <1>4, <1>5, <1>6, <1>7, NothingStored, Zenon

\* The tree still has the digest of the snapshot, or the report says mismatch.
LEMMA VerifierBeforeStep ==
  ASSUME IInv, NEW r \in Runs, VerifierBefore(r)
  PROVE  IInv'
<1>1. CASE target = run[r].original
  <2> DEFINE x ==
      [run[r] EXCEPT !.pc = "copy"]
  <2>1. run[r] \in RunType /\ Memory(run[r]) /\ target \in Trees
    BY Held
  <2>2. /\ run' = [run EXCEPT ![r] = x] /\ run[r].pc = "before"
        /\ UNCHANGED <<rootOf, target, edits, twinDir, store>>
    BY <1>1 DEF VerifierBefore, Go, At, IInv, Types
  <2>4. x \in RunType
    BY <2>1, <2>2 DEF RunType, Verifying
  <2>5. Memory(x)
    BY <2>1, <2>2 DEF Memory, RunType, Before, After, Storing, Verifying, Ended
  <2>6. Alone(r) => Patch(r, x)
    BY <2>1, <2>2, Held
       DEF Patch, Memory, RunType, Before, After, Storing, Verifying, Ended
  <2>7. /\ run[r].pc \notin {"ledger", "graph", "final"} \cup Ended
        /\ x.pc \notin {"ledger", "graph", "final"} \cup Ended
    BY <2>1, <2>2 DEF RunType, Verifying, Ended
  <2> HIDE DEF x
  <2> QED
    BY <2>2, <2>4, <2>5, <2>6, <2>7, NothingStored, Zenon
<1>2. CASE target # run[r].original
  BY <1>2, ReportStep DEF VerifierBefore, At, Verifying, Verdicts
<1> QED
  BY <1>1, <1>2

\* The copy that is replayed has the digest of the snapshot.
LEMMA VerifierCopyStep ==
  ASSUME IInv, NEW r \in Runs, VerifierCopy(r)
  PROVE  IInv'
<1>1. CASE target = run[r].original
  <2> DEFINE x ==
      [run[r] EXCEPT !.copy = target, !.pc = "replay"]
  <2>1. run[r] \in RunType /\ Memory(run[r]) /\ target \in Trees
    BY Held
  <2>2. /\ run' = [run EXCEPT ![r] = x] /\ run[r].pc = "copy" /\ target = run[r].original
        /\ UNCHANGED <<rootOf, target, edits, twinDir, store>>
    BY <1>1, Zenon DEF VerifierCopy, At, IInv, Types
  <2>4. x \in RunType
    BY <2>1, <2>2, Zenon DEF RunType, MaybeTree, Verifying
  <2>5. Memory(x)
    BY <2>1, <2>2 DEF Memory, RunType, Before, After, Storing, Verifying, Ended
  <2>6. Alone(r) => Patch(r, x)
    BY <2>1, <2>2, Held
       DEF Patch, Memory, RunType, Before, After, Storing, Verifying, Ended
  <2>7. /\ run[r].pc \notin {"ledger", "graph", "final"} \cup Ended
        /\ x.pc \notin {"ledger", "graph", "final"} \cup Ended
    BY <2>1, <2>2 DEF RunType, Verifying, Ended
  <2> HIDE DEF x
  <2> QED
    BY <2>2, <2>4, <2>5, <2>6, <2>7, NothingStored, Zenon
<1>2. CASE target # run[r].original
  BY <1>2, ReportStep DEF VerifierCopy, At, Verifying, Verdicts
<1> QED
  BY <1>1, <1>2

\* Only a copy that leaks is accepted.
LEMMA VerifierReplayStep ==
  ASSUME IInv, NEW r \in Runs, VerifierReplay(r)
  PROVE  IInv'
<1>1. PICK v \in Verdicts :
        /\ run' = [run EXCEPT ![r].verdict = v, ![r].pc = "after"]
        /\ v = "accepted" => run[r].copy \in Leaks
  BY Zenon DEF VerifierReplay, Verdicts
<1> QED
  <2> DEFINE x ==
      [run[r] EXCEPT !.verdict = v, !.pc = "after"]
  <2>1. run[r] \in RunType /\ Memory(run[r]) /\ target \in Trees
    BY Held
  <2>2. /\ run' = [run EXCEPT ![r] = x] /\ run[r].pc = "replay"
        /\ UNCHANGED <<rootOf, target, edits, twinDir, store>>
    BY <1>1, Zenon DEF VerifierReplay, At, IInv, Types
  <2>4. x \in RunType
    BY <2>1, <2>2, <1>1, Zenon DEF RunType, Verifying
  <2>5. Memory(x)
    BY <2>1, <2>2, <1>1 DEF Memory, RunType, Before, After, Storing, Verifying, Ended
  <2>6. Alone(r) => Patch(r, x)
    BY <2>1, <2>2, Held
       DEF Patch, Memory, RunType, Before, After, Storing, Verifying, Ended
  <2>7. /\ run[r].pc \notin {"ledger", "graph", "final"} \cup Ended
        /\ x.pc \notin {"ledger", "graph", "final"} \cup Ended
    BY <2>1, <2>2 DEF RunType, Verifying, Ended
  <2> HIDE DEF x
  <2> QED
    BY <2>2, <2>4, <2>5, <2>6, <2>7, NothingStored, Zenon

\* The result of the replay is reported if the tree is still the snapshot.
LEMMA VerifierAfterStep ==
  ASSUME IInv, NEW r \in Runs, VerifierAfter(r)
  PROVE  IInv'
<1>1. run[r] \in RunType /\ Memory(run[r])
  BY Held
<1>2. PICK v \in {run[r].verdict, "mismatch"} : Report(r, v)
  BY DEF VerifierAfter
<1>3. v \in Verdicts /\ run[r].pc \in Verifying
      /\ (v = "accepted" => run[r].copy = run[r].original /\ run[r].copy \in Leaks)
  BY <1>1 DEF VerifierAfter, At, Verifying, Verdicts, RunType, Memory
<1> QED
  BY <1>2, <1>3, ReportStep DEF VerifierAfter

\* A verifier that does not answer leaves no verdict.
LEMMA DeadlineStep ==
  ASSUME IInv, NEW r \in Runs, Deadline(r)
  PROVE  IInv'
<1> DEFINE x ==
    [run[r] EXCEPT !.state = "InsufficientEvidence", !.verdict = "none", !.pc = "row"]
<1>1. run[r] \in RunType /\ Memory(run[r]) /\ target \in Trees
  BY Held
<1>2. /\ run' = [run EXCEPT ![r] = x] /\ run[r].pc \in Verifying
      /\ UNCHANGED <<rootOf, target, edits, twinDir, store>>
  BY Zenon DEF Deadline, At, IInv, Types
<1>4. x \in RunType
  BY <1>1, <1>2, Zenon DEF RunType, States, Verdicts, Engine
<1>5. Memory(x)
  BY <1>1, <1>2 DEF Memory, RunType, Before, After, Storing, Verifying, Ended
<1>6. Alone(r) => Patch(r, x)
  BY <1>1, <1>2, Held
     DEF Patch, Memory, RunType, Before, After, Storing, Verifying, Ended
<1>7. /\ run[r].pc \notin {"ledger", "graph", "final"} \cup Ended
      /\ x.pc \notin {"ledger", "graph", "final"} \cup Ended
  BY <1>1, <1>2 DEF RunType, Verifying, Ended
<1> HIDE DEF x
<1> QED
  BY <1>2, <1>4, <1>5, <1>6, <1>7, NothingStored, Zenon

-----------------------------------------------------------------------------
(***************************************************************************)
(* The engine after the verifier's report.                                 *)
(***************************************************************************)
\* Only an accepted report goes on.
LEMMA JudgeStep ==
  ASSUME IInv, NEW r \in Runs, Judge(r)
  PROVE  IInv'
<1>1. CASE run[r].verdict = "accepted"
  <2> DEFINE x ==
      [run[r] EXCEPT !.pc = "authority"]
  <2>1. run[r] \in RunType /\ Memory(run[r]) /\ target \in Trees
    BY Held
  <2>2. /\ run' = [run EXCEPT ![r] = x]
        /\ run[r].pc = "verdict" /\ run[r].verdict = "accepted"
        /\ UNCHANGED <<rootOf, target, edits, twinDir, store>>
    BY <1>1 DEF Judge, At, IInv, Types
  <2>4. x \in RunType
    BY <2>1, <2>2 DEF RunType, Engine
  <2>5. Memory(x)
    BY <2>1, <2>2 DEF Memory, RunType, Before, After, Storing, Verifying, Ended
  <2>6. Alone(r) => Patch(r, x)
    BY <2>1, <2>2, Held
       DEF Patch, Memory, RunType, Before, After, Storing, Verifying, Ended
  <2>7. /\ run[r].pc \notin {"ledger", "graph", "final"} \cup Ended
        /\ x.pc \notin {"ledger", "graph", "final"} \cup Ended
    BY <2>1, <2>2 DEF RunType, Verifying, Ended
  <2> HIDE DEF x
  <2> QED
    BY <2>2, <2>4, <2>5, <2>6, <2>7, NothingStored, Zenon
<1>2. CASE run[r].verdict # "accepted"
  <2> DEFINE x ==
      [run[r] EXCEPT !.state = "NonReproducible", !.pc = "row"]
  <2>1. run[r] \in RunType /\ Memory(run[r]) /\ target \in Trees
    BY Held
  <2>2. /\ run' = [run EXCEPT ![r] = x] /\ run[r].pc = "verdict"
        /\ UNCHANGED <<rootOf, target, edits, twinDir, store>>
    BY <1>2, Zenon DEF Judge, At, IInv, Types
  <2>4. x \in RunType
    BY <2>1, <2>2, Zenon DEF RunType, States, Engine
  <2>5. Memory(x)
    BY <2>1, <2>2 DEF Memory, RunType, Before, After, Storing, Verifying, Ended
  <2>6. Alone(r) => Patch(r, x)
    BY <2>1, <2>2, Held
       DEF Patch, Memory, RunType, Before, After, Storing, Verifying, Ended
  <2>7. /\ run[r].pc \notin {"ledger", "graph", "final"} \cup Ended
        /\ x.pc \notin {"ledger", "graph", "final"} \cup Ended
    BY <2>1, <2>2 DEF RunType, Verifying, Ended
  <2> HIDE DEF x
  <2> QED
    BY <2>2, <2>4, <2>5, <2>6, <2>7, NothingStored, Zenon
<1> QED
  BY <1>1, <1>2

\* A finding is verified on an accepted report.
LEMMA AuthorizeStep ==
  ASSUME IInv, NEW r \in Runs, Authorize(r)
  PROVE  IInv'
<1>1. CASE run' # [run EXCEPT ![r] = Lost("err")]
  <2> DEFINE x ==
      [run[r] EXCEPT !.verified = TRUE, !.level = 4,
                     !.log = Append(run[r].log, "FindingVerified"), !.pc = "minimize"]
  <2>1. run[r] \in RunType /\ Memory(run[r]) /\ target \in Trees
    BY Held
  <2>2. /\ run' = [run EXCEPT ![r] = x] /\ run[r].pc = "authority"
        /\ UNCHANGED <<rootOf, target, edits, twinDir, store>>
    BY <1>1, Zenon DEF Authorize, Fail, At, IInv, Types
  <2>3. /\ Append(run[r].log, "FindingVerified") \in Seq(Entries)
        /\ Append(run[r].log, "FindingVerified") # << >>
        /\ ~Complete(Append(run[r].log, "FindingVerified"))
    BY <2>1, Logged DEF RunType, Entries
  <2>4. x \in RunType
    <3>1. 4 \in 0 .. 7
      OBVIOUS
    <3> QED
      BY <2>1, <2>2, <2>3, <3>1, Zenon DEF RunType, Engine
  <2>5. Memory(x)
    BY <2>1, <2>2, <2>3 DEF Memory, RunType, Before, After, Storing, Verifying, Ended
  <2>6. Alone(r) => Patch(r, x)
    BY <2>1, <2>2, Held
       DEF Patch, Memory, RunType, Before, After, Storing, Verifying, Ended
  <2>7. /\ run[r].pc \notin {"ledger", "graph", "final"} \cup Ended
        /\ x.pc \notin {"ledger", "graph", "final"} \cup Ended
    BY <2>1, <2>2 DEF RunType, Verifying, Ended
  <2> HIDE DEF x
  <2> QED
    BY <2>2, <2>4, <2>5, <2>6, <2>7, NothingStored, Zenon
<1>2. CASE Fail(r)
  BY <1>2, FailStep DEF Authorize
<1> QED
  BY <1>1, <1>2 DEF Fail

\* A minimised finding was verified.
LEMMA MinimizeStep ==
  ASSUME IInv, NEW r \in Runs, Minimize(r)
  PROVE  IInv'
<1>1. CASE run' # [run EXCEPT ![r] = Lost("err")]
  <2> DEFINE x ==
      [run[r] EXCEPT !.level = 5, !.log = Append(run[r].log, "FindingVerified"),
                     !.pc = "twin"]
  <2>1. run[r] \in RunType /\ Memory(run[r]) /\ target \in Trees
    BY Held
  <2>2. /\ run' = [run EXCEPT ![r] = x] /\ run[r].pc = "minimize"
        /\ UNCHANGED <<rootOf, target, edits, twinDir, store>>
    BY <1>1, Zenon DEF Minimize, Fail, At, IInv, Types
  <2>3. /\ Append(run[r].log, "FindingVerified") \in Seq(Entries)
        /\ Append(run[r].log, "FindingVerified") # << >>
        /\ ~Complete(Append(run[r].log, "FindingVerified"))
    BY <2>1, Logged DEF RunType, Entries
  <2>4. x \in RunType
    <3>1. 5 \in 0 .. 7
      OBVIOUS
    <3> QED
      BY <2>1, <2>2, <2>3, <3>1, Zenon DEF RunType, Engine
  <2>5. Memory(x)
    BY <2>1, <2>2, <2>3 DEF Memory, RunType, Before, After, Storing, Verifying, Ended
  <2>6. Alone(r) => Patch(r, x)
    BY <2>1, <2>2, Held
       DEF Patch, Memory, RunType, Before, After, Storing, Verifying, Ended
  <2>7. /\ run[r].pc \notin {"ledger", "graph", "final"} \cup Ended
        /\ x.pc \notin {"ledger", "graph", "final"} \cup Ended
    BY <2>1, <2>2 DEF RunType, Verifying, Ended
  <2> HIDE DEF x
  <2> QED
    BY <2>2, <2>4, <2>5, <2>6, <2>7, NothingStored, Zenon
<1>2. CASE Fail(r)
  BY <1>2, FailStep DEF Minimize
<1> QED
  BY <1>1, <1>2 DEF Fail

\* The patch that is recorded is the twin at that moment.
LEMMA CheckTwinStep ==
  ASSUME IInv, NEW r \in Runs, CheckTwin(r)
  PROVE  IInv'
<1>1. CASE run' # [run EXCEPT ![r] = Lost("err")]
  <2> DEFINE x ==
      [run[r] EXCEPT !.patch = Twin(r), !.pc = "reattack",
                     !.log = Append(run[r].log, "PatchCandidateCreated")]
  <2>1. run[r] \in RunType /\ Memory(run[r]) /\ target \in Trees
    BY Held
  <2>2. /\ run' = [run EXCEPT ![r] = x] /\ run[r].pc = "check" /\ Twin(r) \in MaybeTree
        /\ UNCHANGED <<rootOf, target, edits, twinDir, store>>
    BY <1>1, NamedRoot, Zenon DEF CheckTwin, Fail, Twin, At, IInv, Types
  <2>3. /\ Append(run[r].log, "PatchCandidateCreated") \in Seq(Entries)
        /\ Append(run[r].log, "PatchCandidateCreated") # << >>
        /\ ~Complete(Append(run[r].log, "PatchCandidateCreated"))
    BY <2>1, Logged DEF RunType, Entries
  <2>4. x \in RunType
    BY <2>1, <2>2, <2>3, Zenon DEF RunType, MaybeTree, Engine
  <2>5. Memory(x)
    BY <2>1, <2>2, <2>3 DEF Memory, RunType, Before, After, Storing, Verifying, Ended
  <2>6. Alone(r) => Patch(r, x)
    BY <2>1, <2>2, Held
       DEF Patch, Memory, RunType, Before, After, Storing, Verifying, Ended
  <2>7. /\ run[r].pc \notin {"ledger", "graph", "final"} \cup Ended
        /\ x.pc \notin {"ledger", "graph", "final"} \cup Ended
    BY <2>1, <2>2 DEF RunType, Verifying, Ended
  <2> HIDE DEF x
  <2> QED
    BY <2>2, <2>4, <2>5, <2>6, <2>7, NothingStored, Zenon
<1>2. CASE Fail(r)
  BY <1>2, FailStep DEF CheckTwin
<1> QED
  BY <1>1, <1>2 DEF Fail

\* The twin that is attacked holds; for a run alone in its root it is the patch.
LEMMA ReattackStep ==
  ASSUME IInv, NEW r \in Runs, Reattack(r)
  PROVE  IInv'
<1>1. CASE run' # [run EXCEPT ![r] = Lost("err")]
  <2> DEFINE x ==
      [run[r] EXCEPT !.twin = Twin(r), !.level = 6, !.pc = "regression"]
  <2>1. run[r] \in RunType /\ Memory(run[r]) /\ target \in Trees
    BY Held
  <2>2. /\ run' = [run EXCEPT ![r] = x] /\ run[r].pc = "reattack" /\ TwinHolds(Twin(r))
        /\ Twin(r) \in MaybeTree
        /\ UNCHANGED <<rootOf, target, edits, twinDir, store>>
    BY <1>1, NamedRoot, Zenon DEF Reattack, Fail, Twin, At, IInv, Types
  <2>4. x \in RunType
    <3>1. 6 \in 0 .. 7
      OBVIOUS
    <3> QED
      BY <2>1, <2>2, <3>1, Zenon DEF RunType, MaybeTree, Engine
  <2>5. Memory(x)
    BY <2>1, <2>2 DEF Memory, RunType, Before, After, Storing, Verifying, Ended
  <2>6. Alone(r) => Patch(r, x)
    BY <2>1, <2>2, Held
       DEF Patch, Memory, RunType, Before, After, Storing, Verifying, Ended
  <2>7. /\ run[r].pc \notin {"ledger", "graph", "final"} \cup Ended
        /\ x.pc \notin {"ledger", "graph", "final"} \cup Ended
    BY <2>1, <2>2 DEF RunType, Verifying, Ended
  <2> HIDE DEF x
  <2> QED
    BY <2>2, <2>4, <2>5, <2>6, <2>7, NothingStored, Zenon
<1>2. CASE Fail(r)
  BY <1>2, FailStep DEF Reattack
<1> QED
  BY <1>1, <1>2 DEF Fail

\* A campaign is complete when its regression has passed on that twin.
LEMMA RegressStep ==
  ASSUME IInv, NEW r \in Runs, Regress(r)
  PROVE  IInv'
<1>1. CASE run' # [run EXCEPT ![r] = Lost("err")]
  <2> DEFINE x ==
      [run[r] EXCEPT !.level = 7, !.state = "RegressionProtected",
                     !.log = run[r].log \o LastTwo, !.pc = "row"]
  <2>1. run[r] \in RunType /\ Memory(run[r]) /\ target \in Trees
    BY Held
  <2>2. /\ run' = [run EXCEPT ![r] = x]
        /\ run[r].pc = "regression" /\ TwinHolds(run[r].twin)
        /\ UNCHANGED <<rootOf, target, edits, twinDir, store>>
    BY <1>1, Zenon DEF Regress, Fail, LastTwo, At, IInv, Types
  <2>3. /\ run[r].log \o LastTwo \in Seq(Entries)
        /\ run[r].log \o LastTwo # << >> /\ Complete(run[r].log \o LastTwo)
    BY <2>1, Finished DEF RunType
  <2>4. x \in RunType
    <3>1. 7 \in 0 .. 7
      OBVIOUS
    <3> QED
      BY <2>1, <2>2, <2>3, <3>1, Zenon DEF RunType, States, Engine
  <2>5. Memory(x)
    BY <2>1, <2>2, <2>3 DEF Memory, RunType, Before, After, Storing, Verifying, Ended
  <2>6. Alone(r) => Patch(r, x)
    BY <2>1, <2>2, Held
       DEF Patch, Memory, RunType, Before, After, Storing, Verifying, Ended
  <2>7. /\ run[r].pc \notin {"ledger", "graph", "final"} \cup Ended
        /\ x.pc \notin {"ledger", "graph", "final"} \cup Ended
    BY <2>1, <2>2 DEF RunType, Verifying, Ended
  <2> HIDE DEF x
  <2> QED
    BY <2>2, <2>4, <2>5, <2>6, <2>7, NothingStored, Zenon
<1>2. CASE Fail(r)
  BY <1>2, FailStep DEF Regress
<1> QED
  BY <1>1, <1>2 DEF Fail

\* The twin directory of the run's own root may be replaced or patched: a run
\* that shares it may notice, one with another root does not.
LEMMA TwinStep ==
  ASSUME IInv, NEW r \in Runs, CopyTwin(r) \/ PatchTwin(r)
  PROVE  IInv'
<1>1. PICK pc \in {"patch", "check"} : /\ run' = [run EXCEPT ![r].pc = pc]
                                       /\ run[r].pc \in {"twin", "patch"}
  BY DEF CopyTwin, PatchTwin, Go, At
<1> DEFINE x == [run[r] EXCEPT !.pc = pc]
<1>2. run[r] \in RunType /\ Memory(run[r]) /\ target \in Trees
  BY Held
<1>3. rootOf[r] \in Roots /\ twinDir \in [Roots -> MaybeTree] /\ run \in [Runs -> RunType]
      /\ Types
  BY NamedRoot DEF IInv, Types
<1>4. PICK tree \in MaybeTree : twinDir' = [twinDir EXCEPT ![rootOf[r]] = tree]
  <2>1. CASE CopyTwin(r)
    BY <1>2, <2>1, Zenon DEF CopyTwin, MaybeTree
  <2>2. CASE PatchTwin(r)
    <3> DEFINE tree == IF Twin(r) \in Unpatched THEN Rewrite[Twin(r)] ELSE Twin(r)
    <3>1. tree \in MaybeTree
      BY <1>3, TreesAssumption DEF Twin, MaybeTree
    <3>2. twinDir' = [twinDir EXCEPT ![rootOf[r]] = tree]
      BY <1>3, <2>2 DEF PatchTwin, Twin
    <3> QED
      BY <3>1, <3>2, Zenon
  <2> QED
    BY <2>1, <2>2
<1>5. /\ rootOf' = rootOf /\ target' = target /\ row' = row /\ stored' = stored
      /\ graph' = graph
  BY DEF CopyTwin, PatchTwin, store
<1>6. run' = [run EXCEPT ![r] = x] /\ x \in RunType /\ x.pc = pc
  BY <1>1, <1>2, <1>3, Zenon DEF RunType, Engine
<1>7. Memory(x)
  BY <1>1, <1>2 DEF Memory, RunType, Before, After, Storing, Verifying, Ended
<1>8. Story(x, row'[r], stored'[r], r \in graph')
  BY <1>1, <1>5, <1>6, Held DEF Story, Ended
<1>9. x.level <= 5 /\ x.pc # "reattack" /\ x.level \in Nat
  BY <1>1, <1>2, <1>6 DEF Memory, RunType, After
<1>10. twinDir' \in [Roots -> MaybeTree]
       /\ \A w \in Roots \ {rootOf[r]} : twinDir'[w] = twinDir[w]
  BY <1>3, <1>4
<1>11. ~(x.level >= 6)
  BY <1>9
<1> HIDE DEF x
<1> QED
  BY <1>3, <1>5, <1>6, <1>7, <1>8, <1>9, <1>10, <1>11, OneRun, Zenon DEF Types

-----------------------------------------------------------------------------
(***************************************************************************)
(* The store, and the steps that are no run's own.                         *)
(***************************************************************************)
\* A step that only writes the store keeps what the run holds.
LEMMA StoreStep ==
  ASSUME IInv, NEW r \in Runs, NEW pc \in {"ledger", "graph", "final"}, Go(r, pc),
         run[r].pc \in {"row", "ledger", "graph"}, UNCHANGED <<rootOf, target, twinDir>>,
         row' \in [Runs -> States \cup {"none"}], stored' \in [Runs -> Seq(Entries)],
         graph' \subseteq Runs,
         \A s \in Runs \ {r} : /\ row'[s] = row[s] /\ stored'[s] = stored[s]
                               /\ s \in graph' <=> s \in graph,
         \A x \in RunType : /\ x.pc = pc /\ x.state = run[r].state /\ x.log = run[r].log
                            => Story(x, row'[r], stored'[r], r \in graph')
  PROVE  IInv'
<1> DEFINE x == [run[r] EXCEPT !.pc = pc]
<1>1. run[r] \in RunType /\ Memory(run[r]) /\ (Alone(r) => Patch(r, run[r])) /\ Types
  BY Held DEF IInv
<1>2. run' = [run EXCEPT ![r] = x] /\ x \in RunType
  BY <1>1, Zenon DEF Go, RunType, Engine, Types
<1>3. Memory(x)
  BY <1>1 DEF Memory, RunType, Before, After, Storing, Verifying, Ended
<1>4. Story(x, row'[r], stored'[r], r \in graph')
  BY <1>1, <1>2 DEF RunType
<1>5. Alone(r) => x.pc # "reattack" /\ (x.level >= 6 => x.twin = x.patch)
  BY <1>1 DEF Patch, RunType
<1> HIDE DEF x
<1> QED
  BY <1>1, <1>2, <1>3, <1>4, <1>5, OneRun, Zenon DEF Types

\* The row is the campaign's state.
LEMMA PutCampaignStep ==
  ASSUME IInv, NEW r \in Runs, PutCampaign(r)
  PROVE  IInv'
<1>1. Types /\ run[r] \in RunType /\ Story(run[r], row[r], stored[r], r \in graph)
  BY Held DEF IInv
<1>2. row' \in [Runs -> States \cup {"none"}] /\ row'[r] = run[r].state
      /\ \A s \in Runs \ {r} : row'[s] = row[s]
  BY <1>1 DEF PutCampaign, RunType, Types
<1>3. run[r].pc = "row" /\ stored' = stored /\ graph' = graph
  BY DEF PutCampaign, At
<1>4. ASSUME NEW x \in RunType, x.pc = "ledger", x.state = run[r].state, x.log = run[r].log
      PROVE  Story(x, row'[r], stored'[r], r \in graph')
  BY <1>1, <1>2, <1>3, <1>4 DEF Story, Ended
<1> QED
  BY <1>1, <1>2, <1>3, <1>4, StoreStep DEF PutCampaign, Types

\* The ledger that is stored ends in CampaignCompleted when the row says so.
LEMMA PersistLedgerStep ==
  ASSUME IInv, NEW r \in Runs, PersistLedger(r)
  PROVE  IInv'
<1>1. /\ Types /\ run[r] \in RunType /\ Memory(run[r])
      /\ Story(run[r], row[r], stored[r], r \in graph)
  BY Held DEF IInv
<1>2. stored' \in [Runs -> Seq(Entries)] /\ stored'[r] = run[r].log
      /\ \A s \in Runs \ {r} : stored'[s] = stored[s]
  BY <1>1 DEF PersistLedger, RunType, Types
<1>3. /\ run[r].pc = "ledger" /\ row' = row /\ graph' = graph
      /\ rootOf' = rootOf /\ target' = target /\ twinDir' = twinDir
  BY DEF PersistLedger, At
<1>4. /\ run[r].log # << >> /\ row[r] = run[r].state /\ r \notin graph
      /\ Complete(run[r].log) <=> run[r].state = "RegressionProtected"
      /\ run[r].state # "none"
  BY <1>1, <1>3 DEF Memory, Story, Ended, RunType, States
<1>5. ASSUME NEW x \in RunType, x.pc \in {"graph", "err"}, x.pc = "graph" =>
             x.state = run[r].state /\ x.log = run[r].log
      PROVE  Story(x, row'[r], stored'[r], r \in graph')
  BY <1>2, <1>3, <1>4, <1>5 DEF Story, Ended
<1>6. CASE Go(r, "graph")
  BY <1>1, <1>2, <1>3, <1>5, <1>6, StoreStep, Zenon DEF Types
<1>7. CASE Fail(r)
  <2>1. /\ run' = [run EXCEPT ![r] = Lost("err")] /\ Lost("err") \in RunType
        /\ Memory(Lost("err")) /\ Patch(r, Lost("err"))
    BY <1>7, Ends DEF Fail
  <2>2. Lost("err").pc = "err"
    BY IdleRun DEF Lost, RunType
  <2>3. Story(Lost("err"), row'[r], stored'[r], r \in graph')
    BY <1>5, <2>1, <2>2
  <2>4. /\ Lost("err").pc # "reattack"
        /\ Lost("err").level >= 6 => Lost("err").twin = Lost("err").patch
    BY <2>1, <2>2 DEF Patch
  <2> QED
    BY <1>1, <1>2, <1>3, <2>1, <2>3, <2>4, OneRun, Zenon DEF Types
<1> QED
  BY <1>6, <1>7 DEF PersistLedger

\* The graph comes after both.
LEMMA PersistGraphStep ==
  ASSUME IInv, NEW r \in Runs, PersistGraph(r)
  PROVE  IInv'
<1>1. /\ Types /\ run[r] \in RunType /\ Memory(run[r])
      /\ Story(run[r], row[r], stored[r], r \in graph)
  BY Held DEF IInv
<1>2. run[r].pc = "graph" /\ row' = row /\ stored' = stored /\ graph' = graph \cup {r}
  BY DEF PersistGraph, At
<1>3. ASSUME NEW x \in RunType, x.pc = "final", x.state = run[r].state, x.log = run[r].log
      PROVE  Story(x, row'[r], stored'[r], r \in graph')
  BY <1>1, <1>2, <1>3 DEF Story, Ended, Memory, Storing
<1> QED
  BY <1>1, <1>2, <1>3, StoreStep DEF PersistGraph, Types

\* An outcome is returned when everything is stored.
LEMMA ReturnStep ==
  ASSUME IInv, NEW r \in Runs, Return(r)
  PROVE  IInv'
<1> DEFINE x == [Lost("ok") EXCEPT !.state = run[r].state]
<1>1. run[r] \in RunType /\ Story(run[r], row[r], stored[r], r \in graph)
  BY Held
<1>2. /\ Lost("ok") \in RunType /\ Lost("ok").pc = "ok" /\ Lost("ok").level = 0
      /\ Lost("ok").verified = FALSE /\ Lost("ok").verdict = "none"
  BY IdleRun DEF Lost, RunType, Ended
<1>3. /\ x \in RunType /\ x.pc = "ok" /\ x.level = 0 /\ x.verified = FALSE
      /\ x.verdict = "none" /\ x.state = run[r].state
  BY <1>1, <1>2 DEF RunType
<1>4. run' = [run EXCEPT ![r] = x] /\ run[r].pc = "final"
      /\ UNCHANGED <<rootOf, target, edits, twinDir, store>>
  BY DEF Return, At
<1> HIDE DEF x
<1>5. Memory(x) /\ Patch(r, x)
  BY <1>3 DEF Memory, Patch, Before, After, Verifying, Ended
<1>6. Story(x, row[r], stored[r], r \in graph)
  BY <1>1, <1>3, <1>4 DEF Story, Ended
<1> QED
  BY <1>3, <1>4, <1>5, <1>6, InMemory, Zenon

\* A crash ends every run at once, wherever it is.
LEMMA CrashStep ==
  ASSUME IInv, Crash
  PROVE  IInv'
<1>1. /\ rootOf' = rootOf /\ target' = target /\ twinDir' = twinDir
      /\ row' = row /\ stored' = stored /\ graph' = graph
  BY DEF Crash, store
<1>2. ASSUME NEW r \in Runs
      PROVE  /\ run'[r] \in RunType /\ Memory(run'[r])
             /\ Story(run'[r], row[r], stored[r], r \in graph)
             /\ Alone(r) => Patch(r, run'[r])
  <2>1. CASE run'[r] = Lost("crashed")
    BY <2>1, Ends
  <2>2. CASE run'[r] = run[r]
    BY <2>2, Held
  <2> QED
    BY <2>1, <2>2 DEF Crash
<1>3. run' \in [Runs -> RunType]
  BY <1>2 DEF Crash
<1>4. Types'
  BY <1>1, <1>3 DEF IInv, Types
<1>5. ASSUME NEW r \in Runs
      PROVE  /\ Memory(run'[r]) /\ Story(run'[r], row'[r], stored'[r], r \in graph')
             /\ Alone(r)' => Patch(r, run[r])'
  BY <1>1, <1>2 DEF Alone, Patch, Twin
<1> QED
  BY <1>4, <1>5, Zenon DEF IInv, Memory

\* An edit of the target touches no run.
LEMMA EditStep ==
  ASSUME IInv, NEW t \in Trees, Edit(t)
  PROVE  IInv'
<1>1. /\ rootOf' = rootOf /\ target' \in Trees /\ twinDir' = twinDir /\ run' = run
      /\ row' = row /\ stored' = stored /\ graph' = graph
  BY DEF Edit, store
<1> QED
  BY SMTT(60), <1>1 DEF IInv, Types, Memory, Story, Alone, Patch, Twin

-----------------------------------------------------------------------------
(***************************************************************************)
(* The invariant and the theorems.                                         *)
(***************************************************************************)
\* Nothing has begun.
LEMMA InitOK == Init => IInv
<1> SUFFICES ASSUME Init PROVE IInv
  OBVIOUS
<1>1. Types
  BY IdleRun DEF Init, Types, MaybeTree
<1>2. ASSUME NEW r \in Runs
      PROVE  /\ Memory(run[r]) /\ Story(run[r], row[r], stored[r], r \in graph)
             /\ Alone(r) => Patch(r, run[r])
  <2>1. run[r] = Idle /\ row[r] = "none" /\ stored[r] = << >> /\ r \notin graph
    BY DEF Init
  <2> QED
    BY <2>1, IdleRun DEF Memory, Story, Patch, Before, After, Storing, Verifying, Ended
<1> QED
  BY <1>1, <1>2 DEF IInv

\* Every step keeps the invariant.
LEMMA NextOK == IInv /\ [Next]_vars => IInv'
<1> SUFFICES ASSUME IInv, [Next]_vars PROVE IInv'
  OBVIOUS
<1>1. ASSUME NEW r \in Runs, NEW kind \in KindsOfRun, Begin(r, kind) PROVE IInv'
  BY <1>1, BeginStep
<1>2. ASSUME NEW r \in Runs, EngineStep(r) PROVE IInv'
  BY <1>2, OpenStep, ResearchStep, DeadlineStep, JudgeStep, AuthorizeStep, MinimizeStep,
     TwinStep, CheckTwinStep, ReattackStep, RegressStep, PutCampaignStep,
     PersistLedgerStep, PersistGraphStep, ReturnStep DEF EngineStep
<1>3. ASSUME NEW r \in Runs, VerifierStep(r) PROVE IInv'
  BY <1>3, VerifierBeforeStep, VerifierCopyStep, VerifierReplayStep, VerifierAfterStep
     DEF VerifierStep
<1>4. ASSUME NEW r \in Runs, Abort(r) PROVE IInv'
  BY <1>4, FailStep DEF Abort
<1>5. ASSUME NEW t \in Trees, Edit(t) PROVE IInv'
  BY <1>5, EditStep
<1>6. CASE Crash
  BY <1>6, CrashStep
<1>7. CASE UNCHANGED vars
  BY SMTT(60), <1>7 DEF vars, IInv, Types, Memory, Story, Alone, Patch, Twin
<1> QED
  BY <1>1, <1>2, <1>3, <1>4, <1>5, <1>6, <1>7 DEF Next, Done

\* So it always holds.
LEMMA Invariance == Spec => []IInv
BY InitOK, NextOK, PTL DEF Spec

\* A finding is only called verified when the independent verifier reproduced
\* it on a copy of the snapshotted tree (reproduce_and_adjudicate), whatever
\* edits of the target fall between its three looks at the digest.
THEOREM VerifiedIsExact == Spec => []VerifiedOnExactTree
<1>1. IInv => VerifiedOnExactTree
  BY Zenon DEF IInv, Memory, VerifiedOnExactTree
<1> QED
  BY <1>1, Invariance, PTL

\* E7 is only reached on a tree that leaks, with a twin process that does not
\* leak to the attack or its variant and still works, for any number of runs
\* that replace each other's twin directory.
THEOREM DifferentialIsEarned == Spec => []DifferentialEarned
<1>1. IInv => DifferentialEarned
  <2> SUFFICES ASSUME IInv, NEW r \in Runs, run[r].level = 7
               PROVE  /\ run[r].original \in Leaks
                      /\ run[r].twin \notin Leaks \cup Variants /\ run[r].twin \in Works
    BY DEF DifferentialEarned
  <2> QED
    BY SMTT(60) DEF IInv, Memory, TwinHolds
<1> QED
  BY <1>1, Invariance, PTL

\* The store tells one story after any crash, abort or failed write between
\* put_campaign, persist_ledger_for and persist_graph.
THEOREM StoreIsConsistent == Spec => []StoreTellsOneStory
<1>1. IInv => StoreTellsOneStory
  BY DEF IInv, Story, Complete, StoreTellsOneStory, At
<1> QED
  BY <1>1, Invariance, PTL

\* A run whose work root no other request names attacks the tree it reports as
\* the patch, and that tree is not the original.
THEOREM PatchWasAttacked == Spec => []PatchIsWhatWasAttacked
<1>1. IInv => PatchIsWhatWasAttacked
  <2> SUFFICES ASSUME IInv, NEW r \in Runs, run[r].level >= 6, Alone(r)
               PROVE  run[r].twin = run[r].patch /\ run[r].patch # run[r].original
    BY DEF PatchIsWhatWasAttacked, Alone
  <2>1. run[r] \in RunType /\ Memory(run[r]) /\ Patch(r, run[r])
    BY Held
  <2>2. run[r].original \in Leaks /\ run[r].twin \notin Leaks
    BY <2>1 DEF Memory, RunType, TwinHolds
  <2> QED
    BY <2>1, <2>2 DEF Patch
<1> QED
  BY <1>1, Invariance, PTL

\* Only the operator's edits count as edits, and there are at most MaxEdits.
LEMMA EditsCounted ==
  ASSUME edits \in 0 .. MaxEdits, [Next]_vars
  PROVE  edits' \in 0 .. MaxEdits
<1>1. ASSUME NEW t \in Trees, Edit(t) PROVE edits' \in 0 .. MaxEdits
  BY <1>1, EditsAssumption DEF Edit
<1>2. ASSUME NEW r \in Runs, NEW kind \in KindsOfRun, Begin(r, kind) PROVE edits' = edits
  BY <1>2 DEF Begin
<1>3. ASSUME NEW r \in Runs, EngineStep(r) PROVE edits' = edits
  BY <1>3 DEF EngineStep, Open, Research, Deadline, Judge, Authorize, Minimize, CopyTwin,
              PatchTwin, CheckTwin, Reattack, Regress, PutCampaign, PersistLedger,
              PersistGraph, Return
<1>4. ASSUME NEW r \in Runs, VerifierStep(r) \/ Abort(r) PROVE edits' = edits
  BY <1>4 DEF VerifierStep, VerifierBefore, VerifierCopy, VerifierReplay, VerifierAfter, Abort
<1>5. CASE Crash \/ Done \/ UNCHANGED vars
  BY <1>5 DEF Crash, Done, vars
<1> QED
  BY <1>1, <1>2, <1>3, <1>4, <1>5 DEF Next

\* Every run, row, ledger and twin directory keeps its type: a run holds only
\* trees, verdicts and states of the engine at each of its control points, and
\* only campaign states reach a row.
THEOREM FixtureTypes == Spec => []TypeOK
<1>1. Init => edits \in 0 .. MaxEdits
  BY EditsAssumption DEF Init
<1>2. edits \in 0 .. MaxEdits /\ [Next]_vars => (edits \in 0 .. MaxEdits)'
  BY EditsCounted
<1>3. IInv /\ edits \in 0 .. MaxEdits => TypeOK
  BY DEF IInv, Types, TypeOK
<1> QED
  BY <1>1, <1>2, <1>3, Invariance, PTL DEF Spec
=============================================================================
