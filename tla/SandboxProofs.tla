---------------------------- MODULE SandboxProofs -----------------------------
(***************************************************************************)
(* Proofs about the sandbox, for any number of calls, time stamps and      *)
(* faults: what runs is on a measured network, what a call made is removed *)
(* with it, and a target that was handed out stays.                        *)
(***************************************************************************)
EXTENDS Sandbox, TLAPS

\* From the creation of its network to its removal a call owns the network; on
\* the way it runs its main container only where it was admitted.
Admitted == {"run", "running", "wait", "up"}
Owning   == {"inspect", "preflight", "listen", "reachable", "egress", "dns", "gateway",
             "ipv6", "unlisten", "rmMain", "rmNetwork"} \cup Admitted

Record == [pc : Pcs, kind : Kinds, net : Ids \cup {"none"}, listener : Ids \cup {"none"},
           proven : SUBSET Dimensions, serves : BOOLEAN, result : {"none", "Ok", "Err"}]

Types ==
  /\ Networks \subseteq Ids /\ \A n \in Networks : networks[n] \subseteq AllWays
  /\ containers \subseteq Container /\ late \subseteq Request
  /\ call \in [Calls -> Record] /\ masked \in [Calls -> SUBSET AllWays]
  /\ lost \in [Calls -> SUBSET {"create", "rmNetwork"}]

\* A campaign call has a network of its own name, a capability probe a stamp's.
NamesInv ==
  \A c \in Calls : call[c].pc \in Owning \cup {"create"} =>
    call[c].net \in IF call[c].kind = "capability" THEN Stamps ELSE {c}

\* The network of a call is there as long as the call owns it, and nobody else
\* owns it.
OwnerInv ==
  \A c \in Calls : call[c].pc \in Owning =>
    /\ call[c].net \in Networks
    /\ \A b \in Calls \ {c} : call[b].pc \in Owning => call[b].net # call[c].net

\* A network is owned, or was left by a crash or by a command that failed; one
\* that podman may still create has its failed command; and a container is on
\* an existing network.
Left(n) ==
  \E c \in Calls : call[c].net = n /\ (call[c].pc \in Owning \cup {"crashed"} \/ lost[c] # {})

Blamed(n) == \E c \in Calls : call[c].net = n /\ lost[c] # {}

LeftInv ==
  /\ \A n \in Networks : Left(n)
  /\ \A r \in late : r.role = "network" =>
       Blamed(r.id) /\ (r.id \in Calls => call[r.id].pc \in {"ended", "crashed"})
  /\ \A k \in containers : k.net \in Networks
  /\ \A c \in Calls : call[c].pc \in {"idle", "create"} => lost[c] = {}

\* The report of a call is true of its network, but for what podman masked.
ProbeInv ==
  \A c \in Calls :
    LET net == networks[call[c].net] IN
    /\ call[c].pc \in Owning =>
         \A d \in call[c].proven \ {"reachable"} : net \cap Ways(d) \subseteq masked[c]
    /\ call[c].pc = "create" => call[c].proven = {}
    /\ call[c].pc \in Admitted \cup {"rmMain"} => call[c].kind # "capability"
    /\ \/ call[c].pc \in Admitted
       \/ call[c].kind = "capability" /\ call[c].pc = "rmNetwork" /\ call[c].result = "Ok"
       => net \subseteq masked[c]

\* A main container is on its call's network, which no late request can create
\* anew, and which has no way out but a masked one.
MainInv ==
  /\ \A k \in containers \cup late : k.role = "main" =>
       /\ k.id \in Calls /\ k.net = k.id /\ call[k.id].pc \notin {"idle", "create"}
       /\ \A r \in late : r.role = "network" => r.id # k.id
       /\ k.net \in Networks => networks[k.net] \subseteq masked[k.id]
  /\ \A c \in Calls : call[c].pc \in {"wait", "up"} => Main(c) \in containers

IInv == Types /\ NamesInv /\ OwnerInv /\ LeftInv /\ ProbeInv /\ MainInv

-----------------------------------------------------------------------------
(***************************************************************************)
(* A step of one call that owns its network and keeps it.                  *)
(***************************************************************************)
Stays(c) == call[c].pc \in Owning /\ call'[c].pc \in Owning

\* What every such step keeps.
Frame(c) ==
  /\ call' = [call EXCEPT ![c] = call'[c]] /\ call'[c] \in Record
  /\ call'[c].net = call[c].net /\ call'[c].kind = call[c].kind
  /\ UNCHANGED <<networks, lost>>

\* New containers and requests are on an existing network, and of role main
\* only when the call was admitted.
NewContainer(c, k) ==
  k \in Container /\ (k.role = "main" => k = Main(c) /\ call[c].pc = "run")

Containers(c) ==
  /\ \A k \in containers' \ containers : NewContainer(c, k) /\ k.net \in Networks
  /\ \A k \in late' \ late : NewContainer(c, k)
  /\ \A b \in Calls \ {c} : Main(b) \in containers => Main(b) \in containers'
  /\ call'[c].pc \in {"wait", "up"} => Main(c) \in containers'

Report(c) ==
  LET net == networks[call[c].net]  r == call'[c] IN
  /\ masked' \in [Calls -> SUBSET AllWays] /\ \A b \in Calls : masked[b] \subseteq masked'[b]
  /\ \A d \in r.proven \ {"reachable"} : net \cap Ways(d) \subseteq masked'[c]
  /\ r.pc \in Admitted \cup {"rmMain"} => r.kind # "capability"
  /\ \/ r.pc \in Admitted
     \/ r.kind = "capability" /\ r.pc = "rmNetwork" /\ r.result = "Ok"
     => net \subseteq masked'[c]

\* Such a step keeps the invariant.
LEMMA KeepingStep ==
  ASSUME IInv, NEW c \in Calls, Stays(c), Frame(c), Containers(c), Report(c)
  PROVE  IInv'
<1>1. /\ \A b \in Calls \ {c} : call'[b] = call[b]
      /\ call' \in [Calls -> Record] /\ Networks' = Networks /\ lost' = lost
      /\ \A b \in Calls : call'[b].net = call[b].net /\ call'[b].kind = call[b].kind
      /\ \A b \in Calls : call[b].pc \in Owning <=> call'[b].pc \in Owning
  BY DEF IInv, Types, Frame, Stays, Networks
<1>2. Types'
  BY <1>1 DEF IInv, Types, Frame, Containers, NewContainer, Report, Request
<1>3. NamesInv'
  BY <1>1 DEF IInv, NamesInv, Stays, Owning, Admitted
<1>4. OwnerInv'
  BY <1>1 DEF IInv, OwnerInv
<1>5. LeftInv'
  <2>1. \A n : (Left(n) => Left(n)') /\ (Blamed(n) => Blamed(n)')
    BY <1>1 DEF Left, Blamed, Stays
  <2>2. \A r \in late' : r.role = "network" => r \in late
    BY DEF Containers, NewContainer, Container
  <2>3. \A b \in Calls : call[b].pc \in {"ended", "crashed"} => call'[b] = call[b]
    BY <1>1 DEF Stays, Owning, Admitted
  <2>4. \A b \in Calls : call'[b].pc \in {"idle", "create"} => call'[b] = call[b]
    BY <1>1 DEF Stays, Owning, Admitted
  <2> QED BY <1>1, <2>1, <2>2, <2>3, <2>4 DEF IInv, LeftInv, Containers
<1>6. ProbeInv'
  BY <1>1 DEF IInv, ProbeInv, Frame, Report, Stays, Owning, Admitted
<1>7. MainInv'
  <2>1. /\ \A b \in Calls : Main(b)' = Main(b)
        /\ \A r \in late' : r.role = "network" => r \in late
    BY <1>1 DEF Main, Containers, NewContainer, Container
  <2>2. \A b \in Calls : call'[b].pc \in {"wait", "up"} => Main(b) \in containers'
    BY <1>1 DEF IInv, MainInv, Containers
  <2>3. \A b \in Calls : call[b].pc \notin {"idle", "create"} => call'[b].pc \notin {"idle", "create"}
    BY <1>1 DEF Stays, Owning, Admitted
  <2>4. SUFFICES ASSUME NEW k \in containers' \cup late', k.role = "main"
                 PROVE  /\ k.id \in Calls /\ k.net = k.id /\ call'[k.id].pc \notin {"idle", "create"}
                        /\ \A r \in late' : r.role = "network" => r.id # k.id
                        /\ k.net \in Networks => networks[k.net] \subseteq masked'[k.id]
    BY <1>1, <2>1, <2>2 DEF MainInv, Frame
  <2>5. CASE k \in containers \cup late
    BY Zenon, <2>1, <2>3, <2>4, <2>5 DEF IInv, MainInv, Report
  <2>6. CASE k \notin containers \cup late
    <3>1. k = Main(c) /\ call[c].pc = "run"
      BY <2>4, <2>6 DEF Containers, NewContainer
    <3>2. call[c].kind # "capability" /\ networks[call[c].net] \subseteq masked[c]
      BY <3>1 DEF IInv, ProbeInv, Admitted
    <3>3. call[c].net = c
      BY Zenon, <3>1, <3>2 DEF IInv, NamesInv, Owning, Admitted
    <3>4. \A r \in late : r.role = "network" => r.id # c
      BY <3>1 DEF IInv, LeftInv
    <3> QED BY <2>1, <2>3, <3>1, <3>2, <3>3, <3>4 DEF Main, Report
  <2> QED BY <2>5, <2>6
<1> QED BY <1>2, <1>3, <1>4, <1>5, <1>6, <1>7 DEF IInv

-----------------------------------------------------------------------------
(***************************************************************************)
(* The steps that keep the network.                                        *)
(***************************************************************************)
\* Facts of a call that owns its network.
LEMMA OwnerFacts ==
  ASSUME IInv, NEW c \in Calls, call[c].pc \in Owning
  PROVE  /\ call[c] \in Record /\ call[c].net \in Ids /\ call[c].net \in Networks
         /\ Stray(c) \in Container /\ Main(c) \in Container
         /\ Stray(c).role = "probe" /\ masked \in [Calls -> SUBSET AllWays]
         /\ \A b \in Calls : call[b].pc \in Owning \/ call[b].pc \in {"idle", "create", "ended", "crashed"}
BY DEF IInv, Types, OwnerInv, Record, Ids, NamesInv, Stray, Main, Container, Pcs, Owning, Admitted

\* A killed client adds its container to podman, now or later, or does nothing.
LEMMA KilledAdds ==
  ASSUME NEW k \in Container, Killed(k)
  PROVE  /\ UNCHANGED networks
         /\ containers' = containers \/ (containers' = containers \cup {k} /\ k.net \in Networks)
         /\ late' = late \/ late' = late \cup {k}
BY DEF Killed, podman, Container, Startable

\* Podman's part of a step that does nothing, or starts what is no main
\* container.
LEMMA PodmanKeeps ==
  ASSUME NEW c \in Calls, NEW k \in Container, k.role # "main",
         call'[c].pc \notin {"wait", "up"},
         UNCHANGED podman \/ Killed(k)
  PROVE  Containers(c) /\ UNCHANGED networks
<1>1. CASE UNCHANGED podman
  BY <1>1 DEF podman, Containers
<1>2. CASE Killed(k)
  BY <1>2, KilledAdds DEF Containers, NewContainer
<1> QED BY <1>1, <1>2

\* The verdict is not touched by a step that leaves the report alone and goes
\* on probing, or fails.
LEMMA ReportKeeps ==
  ASSUME IInv, NEW c \in Calls, call[c].pc \in Owning, UNCHANGED masked,
         call'[c].proven \subseteq call[c].proven \cup {"reachable"},
         call'[c].kind = call[c].kind,
         \/ call'[c].pc \in Owning \ (Admitted \cup {"rmMain", "rmNetwork"})
         \/ call'[c].pc = "rmMain" /\ call[c].kind # "capability"
         \/ call'[c].pc = "rmNetwork" /\ call'[c].result = "Err"
  PROVE  Report(c)
BY OwnerFacts DEF IInv, ProbeInv, Report, Owning, Admitted

\* What Goto and Fail do to the record of a call.
Kept == {"kind", "net", "proven"}

Moved(c, pc) ==
  /\ call' = [call EXCEPT ![c] = call'[c]] /\ call'[c] \in Record
  /\ call'[c].pc = pc
  /\ \A f \in Kept : call'[c][f] = call[c][f]

LEMMA GotoMoves ==
  ASSUME call \in [Calls -> Record], NEW c \in Calls, NEW pc \in Pcs, Goto(c, pc)
  PROVE  Moved(c, pc)
<1>1. call'[c] = [call[c] EXCEPT !.pc = pc] /\ call[c] \in Record
  BY DEF Goto
<1>2. call' = [call EXCEPT ![c] = call'[c]]
  BY <1>1 DEF Goto
<1> QED BY <1>1, <1>2 DEF Moved, Record, Kept

LEMMA FailMoves ==
  ASSUME call \in [Calls -> Record], NEW c \in Calls, Fail(c)
  PROVE  /\ Moved(c, IF call[c].kind = "capability" THEN "rmNetwork" ELSE "rmMain")
         /\ call'[c].result = "Err"
<1> DEFINE pc == IF call[c].kind = "capability" THEN "rmNetwork" ELSE "rmMain"
<1>0. pc \in Pcs
  BY DEF Pcs
<1>1. call'[c] = [call[c] EXCEPT !.pc = pc, !.result = "Err"] /\ call[c] \in Record
  BY DEF Fail
<1>2. call' = [call EXCEPT ![c] = call'[c]]
  BY Zenon, <1>1 DEF Fail
<1> HIDE DEF pc
<1>3. Moved(c, pc) /\ call'[c].result = "Err"
  BY Zenon, <1>0, <1>1, <1>2 DEF Moved, Record, Kept
<1> QED BY <1>3 DEF pc

\* podman network inspect and the preflight.
LEMMA SetupSteps ==
  ASSUME IInv, NEW c \in Calls, InspectNetwork(c) \/ Preflight(c)
  PROVE  IInv'
<1>1. call[c].pc \in Owning /\ call \in [Calls -> Record]
  BY DEF InspectNetwork, Preflight, Owning, IInv, Types
<1>2. PICK pc \in {"preflight", "listen", "rmMain", "rmNetwork"} :
        /\ Moved(c, pc)
        /\ pc = "rmMain" => call[c].kind # "capability"
        /\ pc = "rmNetwork" => call'[c].result = "Err"
  <2>1. CASE Goto(c, "preflight") \/ Goto(c, "listen")
    BY <1>1, <2>1, GotoMoves DEF Pcs
  <2>2. CASE Fail(c)
    BY <1>1, <2>2, FailMoves
  <2> QED BY <2>1, <2>2 DEF InspectNetwork, Preflight
<1>3. UNCHANGED <<masked, lost>> /\ (UNCHANGED podman \/ Killed(Stray(c)))
  BY DEF InspectNetwork, Preflight
<1>4. Containers(c) /\ UNCHANGED networks
  BY <1>1, <1>2, <1>3, OwnerFacts, PodmanKeeps DEF Moved
<1>5. Stays(c) /\ Frame(c)
  BY <1>1, <1>2, <1>3, <1>4 DEF Stays, Frame, Owning, Moved, Kept
<1>6. Report(c)
  BY <1>1, <1>2, <1>3, ReportKeeps DEF Moved, Kept, Owning, Admitted
<1> QED BY <1>4, <1>5, <1>6, KeepingStep

\* The listener is a container of its own role.
LEMMA ListenerStep ==
  ASSUME IInv, NEW c \in Calls, StartListener(c)
  PROVE  IInv'
<1>1. /\ call[c].pc = "listen" /\ call[c].pc \in Owning /\ call \in [Calls -> Record]
      /\ UNCHANGED <<masked, lost>>
  BY DEF StartListener, Owning, IInv, Types
<1> DEFINE k(id) == [role |-> "listener", id |-> id, net |-> call[c].net]
<1>2. PICK id \in Ids, pc \in {"reachable", "egress"} :
        /\ call' = [call EXCEPT ![c].pc = pc, ![c].listener = id]
        /\ \/ UNCHANGED podman \/ Killed(k(id))
           \/ /\ containers' = containers \cup {k(id)} /\ UNCHANGED <<networks, late>>
  BY Zenon, <1>1 DEF StartListener, Ids
<1>3. k(id) \in Container /\ k(id).role = "listener" /\ k(id).net \in Networks
  BY <1>1, OwnerFacts DEF Container
<1>4. Moved(c, pc)
  <2>1. call'[c] = [call[c] EXCEPT !.pc = pc, !.listener = id] /\ call[c] \in Record
    BY <1>1, <1>2
  <2>2. call' = [call EXCEPT ![c] = call'[c]] /\ pc \in Pcs
    BY Zenon, <1>2, <2>1 DEF Pcs
  <2> QED BY Zenon, <2>1, <2>2 DEF Moved, Record, Kept
<1> HIDE DEF k
<1>5. Containers(c) /\ UNCHANGED networks
  <2>1. CASE UNCHANGED podman \/ Killed(k(id))
    BY Zenon, <1>2, <1>3, <1>4, <2>1, PodmanKeeps DEF Moved
  <2>2. CASE containers' = containers \cup {k(id)} /\ UNCHANGED <<networks, late>>
    BY <1>3, <1>4, <2>2 DEF Containers, NewContainer, Moved
  <2> QED BY <1>2, <2>1, <2>2
<1>6. Stays(c) /\ Frame(c)
  BY <1>1, <1>4, <1>5 DEF Stays, Frame, Owning, Moved, Kept
<1>7. Report(c)
  BY <1>1, <1>4, ReportKeeps DEF Moved, Kept, Owning, Admitted
<1> QED BY <1>5, <1>6, <1>7, KeepingStep

\* The reachability probe.
LEMMA ReachableStep ==
  ASSUME IInv, NEW c \in Calls, ProbeReachable(c)
  PROVE  IInv'
<1>1. /\ call[c].pc \in Owning /\ call \in [Calls -> Record] /\ UNCHANGED <<masked, lost>>
      /\ UNCHANGED podman \/ Killed(Stray(c))
  BY DEF ProbeReachable, Owning, IInv, Types
<1>2. /\ call' = [call EXCEPT ![c] = call'[c]] /\ call'[c] \in Record
      /\ call'[c].pc = "egress" /\ call'[c].net = call[c].net /\ call'[c].kind = call[c].kind
      /\ call'[c].proven \subseteq call[c].proven \cup {"reachable"}
  <2>1. CASE Goto(c, "egress")
    BY <1>1, <2>1, GotoMoves DEF Pcs, Moved, Kept
  <2>2. CASE call' = [call EXCEPT ![c].pc = "egress", ![c].proven = @ \cup {"reachable"}]
    <3>1. /\ call'[c] = [call[c] EXCEPT !.pc = "egress", !.proven = @ \cup {"reachable"}]
          /\ call[c] \in Record
      BY <1>1, <2>2
    <3>2. call' = [call EXCEPT ![c] = call'[c]] /\ "reachable" \in Dimensions /\ "egress" \in Pcs
      BY Zenon, <2>2, <3>1 DEF Pcs, Dimensions
    <3> QED BY Zenon, <3>1, <3>2 DEF Record
  <2> QED BY <2>1, <2>2 DEF ProbeReachable
<1>3. Containers(c) /\ UNCHANGED networks
  BY <1>1, <1>2, OwnerFacts, PodmanKeeps
<1>4. Stays(c) /\ Frame(c)
  BY <1>1, <1>2, <1>3 DEF Stays, Frame, Owning
<1>5. Report(c)
  BY <1>1, <1>2, ReportKeeps DEF Owning, Admitted
<1> QED BY <1>3, <1>4, <1>5, KeepingStep

\* A dimension is proven when every one of its ways was tried and denied, but
\* for those that podman masked.
LEMMA DeniedStep ==
  ASSUME IInv, NEW c \in Calls, NEW d \in Dimensions \ {"reachable"}, ProbeDenied(c, d)
  PROVE  IInv'
<1> DEFINE n == call[c].net
           next == AfterDimension(d)
           Others(w) == {Measured(n, x) : x \in Ways(d) \ {w}}
           Conclude(values) ==
             call' = [call EXCEPT ![c].pc = next,
                        ![c].proven = @ \cup (IF combine_denials(values) = "Proven"
                                              THEN {d} ELSE {})]
<1>1. /\ call[c].pc \in Owning /\ call \in [Calls -> Record] /\ UNCHANGED lost
      /\ next \in Owning \ (Admitted \cup {"rmMain", "rmNetwork"}) /\ next \in Pcs
  BY DEF ProbeDenied, Owning, Admitted, IInv, Types, Dimensions, AfterDimension, Pcs
<1> DEFINE Fair(values) ==
             /\ Conclude(values) /\ (UNCHANGED podman \/ Killed(Stray(c)))
             /\ \/ UNCHANGED masked /\ {Measured(n, w) : w \in Ways(d)} \subseteq values
                \/ UNCHANGED masked /\ "Indeterminate" \in values
                \/ \E w \in Ways(d) : /\ masked' = [masked EXCEPT ![c] = @ \cup {w}]
                                       /\ Others(w) \subseteq values
<1>2. PICK values : Fair(values)
  <2>1. \/ /\ Conclude({Measured(n, w) : w \in Ways(d)}) /\ UNCHANGED <<podman, masked>>
        \/ \E w \in Ways(d) :
             \/ /\ Conclude(Others(w) \cup {"Indeterminate"}) /\ Killed(Stray(c))
                /\ UNCHANGED masked
             \/ /\ Conclude(Others(w) \cup {"Proven"}) /\ UNCHANGED podman
                /\ masked' = [masked EXCEPT ![c] = @ \cup {w}]
    BY Zenon DEF ProbeDenied
  <2> HIDE DEF Conclude, Others
  <2>2. CASE Conclude({Measured(n, w) : w \in Ways(d)}) /\ UNCHANGED <<podman, masked>>
    <3>1. Fair({Measured(n, w) : w \in Ways(d)})
      BY <2>2
    <3> QED BY <3>1
  <2>3. ASSUME NEW w \in Ways(d), Conclude(Others(w) \cup {"Indeterminate"}),
               Killed(Stray(c)), UNCHANGED masked
        PROVE  Fair(Others(w) \cup {"Indeterminate"})
    BY <2>3
  <2>4. ASSUME NEW w \in Ways(d), Conclude(Others(w) \cup {"Proven"}), UNCHANGED podman,
               masked' = [masked EXCEPT ![c] = @ \cup {w}]
        PROVE  Fair(Others(w) \cup {"Proven"})
    BY Zenon, <2>4
  <2> HIDE DEF Fair
  <2> QED BY Zenon, <2>1, <2>2, <2>3, <2>4
<1> DEFINE fresh == IF combine_denials(values) = "Proven" THEN {d} ELSE {}
<1>3. /\ call' = [call EXCEPT ![c] = call'[c]] /\ call'[c] \in Record
      /\ call'[c].pc = next /\ call'[c].net = n /\ call'[c].kind = call[c].kind
      /\ call'[c].proven = call[c].proven \cup fresh
  <2>1. /\ call'[c] = [call[c] EXCEPT !.pc = next, !.proven = @ \cup fresh]
        /\ call[c] \in Record /\ fresh \subseteq Dimensions
    BY <1>1, <1>2
  <2>2. call' = [call EXCEPT ![c] = call'[c]]
    BY Zenon, <1>2, <2>1
  <2> HIDE DEF fresh, next, Conclude
  <2> QED BY Zenon, <1>1, <2>1, <2>2 DEF Record
<1>4. /\ masked' \in [Calls -> SUBSET AllWays]
      /\ \A b \in Calls : masked[b] \subseteq masked'[b]
  BY <1>1, <1>2, OwnerFacts DEF AllWays
<1>5. combine_denials(values) = "Proven" => networks[n] \cap Ways(d) \subseteq masked'[c]
  <2>1. SUFFICES ASSUME values \subseteq {"Proven"}, NEW w \in networks[n] \cap Ways(d)
                 PROVE  w \in masked'[c]
    BY DEF combine_denials
  <2>2. Measured(n, w) = "Failed" /\ c \in DOMAIN masked
    BY <1>1, OwnerFacts DEF Measured
  <2> HIDE DEF Conclude
  <2> QED BY <1>2, <2>1, <2>2
<1> HIDE DEF next, Conclude, Others
<1>6. Containers(c) /\ UNCHANGED networks
  BY <1>1, <1>2, <1>3, OwnerFacts, PodmanKeeps DEF Owning, Admitted
<1>7. Stays(c) /\ Frame(c)
  BY <1>1, <1>3, <1>6 DEF Stays, Frame
<1>8. Report(c)
  <2>1. \A x \in call'[c].proven \ {"reachable"} : networks[n] \cap Ways(x) \subseteq masked'[c]
    BY <1>1, <1>3, <1>4, <1>5 DEF IInv, ProbeInv
  <2> QED BY Zenon, <1>1, <1>3, <1>4, <2>1 DEF Report
<1> QED BY <1>6, <1>7, <1>8, KeepingStep

\* A call goes on to its main container, or a capability probe says yes, only
\* with all dimensions proven: then every way out was masked.
LEMMA VerdictStep ==
  ASSUME IInv, NEW c \in Calls, RemoveListener(c)
  PROVE  IInv'
<1> DEFINE claimable == live_oci_claimable(call[c].proven)
           Verdict(pc, result) ==
             call' = [call EXCEPT ![c] = [@ EXCEPT !.pc = pc, !.result = result,
                                                   !.proven = {}, !.listener = "none"]]
<1>1. /\ call[c].pc = "unlisten" /\ call[c].pc \in Owning /\ call \in [Calls -> Record]
      /\ UNCHANGED <<networks, late, masked, lost>>
      /\ containers' \subseteq containers
      /\ \A b \in Calls : Main(b) \in containers => Main(b) \in containers'
  BY DEF RemoveListener, Owning, IInv, Types, Main
<1>2. PICK pc \in {"rmNetwork", "rmMain", "run"}, result \in {"none", "Ok", "Err"} :
        /\ Verdict(pc, result)
        /\ pc \in {"rmMain", "run"} => call[c].kind # "capability"
        /\ pc = "run" \/ (pc = "rmNetwork" /\ result = "Ok") => claimable
  <2>1. \/ /\ call[c].kind = "capability"
           /\ Verdict("rmNetwork", IF claimable THEN "Ok" ELSE "Err")
        \/ call[c].kind # "capability" /\ claimable /\ Verdict("run", "none")
        \/ call[c].kind # "capability" /\ ~claimable /\ Verdict("rmMain", "Err")
    BY Zenon DEF RemoveListener
  <2> HIDE DEF Verdict, claimable
  <2> QED BY <2>1
<1>3. /\ call' = [call EXCEPT ![c] = call'[c]] /\ call'[c] \in Record
      /\ call'[c].pc = pc /\ call'[c].net = call[c].net /\ call'[c].kind = call[c].kind
      /\ call'[c].proven = {} /\ call'[c].result = result
  <2>1. /\ call'[c] = [call[c] EXCEPT !.pc = pc, !.result = result,
                                      !.proven = {}, !.listener = "none"]
        /\ call[c] \in Record
    BY <1>1, <1>2
  <2>2. call' = [call EXCEPT ![c] = call'[c]] /\ pc \in Pcs
    BY Zenon, <1>2, <2>1 DEF Pcs
  <2> HIDE DEF Verdict
  <2>3. {} \subseteq Dimensions /\ "none" \in Ids \cup {"none"}
    OBVIOUS
  <2> QED BY Zenon, <2>1, <2>2, <2>3 DEF Record
<1>4. claimable => networks[call[c].net] \subseteq masked[c]
  <2>1. SUFFICES ASSUME call[c].proven = Dimensions, NEW w \in networks[call[c].net]
                 PROVE  w \in masked[c]
    BY DEF live_oci_claimable
  <2>2. w \in AllWays
    BY <1>1, OwnerFacts DEF IInv, Types
  <2>3. PICK d \in Dimensions \ {"reachable"} : w \in Ways(d)
    BY <2>2 DEF AllWays
  <2> QED BY <1>1, <2>1, <2>3 DEF IInv, ProbeInv
<1> HIDE DEF claimable, Verdict
<1>5. Containers(c)
  BY <1>1, <1>2, <1>3 DEF Containers
<1>6. Stays(c) /\ Frame(c)
  BY <1>1, <1>2, <1>3 DEF Stays, Frame, Owning, Admitted
<1>7. Report(c)
  BY <1>1, <1>2, <1>3, <1>4, OwnerFacts DEF Report, Admitted
<1> QED BY <1>5, <1>6, <1>7, KeepingStep

\* run -d or run --rm of the main container on the network that was admitted.
LEMMA RunStep ==
  ASSUME IInv, NEW c \in Calls, RunMain(c)
  PROVE  IInv'
<1>1. /\ call[c].pc = "run" /\ call[c].pc \in Owning /\ call \in [Calls -> Record]
      /\ UNCHANGED <<masked, lost>> /\ call[c].kind # "capability"
      /\ networks[call[c].net] \subseteq masked[c]
  BY DEF RunMain, Owning, Admitted, IInv, Types, ProbeInv
<1>2. PICK pc \in {"running", "wait", "rmMain"} : Moved(c, pc)
  <2>1. CASE Goto(c, "running")
    BY <1>1, <2>1, GotoMoves DEF Pcs
  <2>2. CASE Fail(c)
    BY <1>1, <2>2, FailMoves
  <2>3. ASSUME NEW serves \in BOOLEAN,
               call' = [call EXCEPT ![c].pc = "wait", ![c].serves = serves]
        PROVE  Moved(c, "wait")
    <3>1. call'[c] = [call[c] EXCEPT !.pc = "wait", !.serves = serves] /\ call[c] \in Record
      BY <1>1, <2>3
    <3>2. call' = [call EXCEPT ![c] = call'[c]] /\ "wait" \in Pcs
      BY Zenon, <2>3, <3>1 DEF Pcs
    <3> QED BY Zenon, <3>1, <3>2 DEF Moved, Record, Kept
  <2> QED BY <2>1, <2>2, <2>3 DEF RunMain
<1>3. /\ UNCHANGED networks
      /\ containers' = containers \/ (containers' = containers \cup {Main(c)})
      /\ late' = late \/ late' = late \cup {Main(c)}
      /\ Main(c) \in containers' \/ Fail(c)
  <2>1. Main(c) \in Container
    BY <1>1, OwnerFacts
  <2> QED BY <2>1, KilledAdds DEF RunMain, podman
<1>4. call'[c].pc \in {"wait", "up"} => Main(c) \in containers'
  BY <1>1, <1>2, <1>3, FailMoves DEF Moved
<1>5. Containers(c)
  BY <1>1, <1>3, <1>4, OwnerFacts DEF Containers, NewContainer, Main
<1>6. Stays(c) /\ Frame(c)
  BY <1>1, <1>2, <1>3 DEF Stays, Frame, Owning, Admitted, Moved, Kept
<1>7. Report(c)
  BY <1>1, <1>2, OwnerFacts DEF IInv, ProbeInv, Report, Moved, Kept
<1> QED BY <1>5, <1>6, <1>7, KeepingStep

\* The main container ends, serves or does not, or is stopped and removed.
LEMMA MainSteps ==
  ASSUME IInv, NEW c \in Calls,
         \/ GeneratorEnds(c) \/ GeneratorTimesOut(c) \/ TargetReady(c)
         \/ TargetSilent(c) \/ Stop(c) \/ RemoveMain(c)
  PROVE  IInv'
<1> DEFINE before == call[c].pc
<1>1. /\ before \in {"running", "wait", "up", "rmMain"} /\ before \in Owning
      /\ call \in [Calls -> Record] /\ call[c].kind # "capability"
      /\ UNCHANGED <<networks, late, masked, lost>>
  BY DEF GeneratorEnds, GeneratorTimesOut, TargetReady, TargetSilent, Stop, RemoveMain,
         Owning, Admitted, IInv, Types, ProbeInv, podman
<1>2. PICK pc \in {"up", "rmMain", "rmNetwork"} :
        /\ Moved(c, pc)
        /\ pc = "up" => before = "wait" /\ UNCHANGED containers
  <2>1. CASE Goto(c, "rmMain") \/ Goto(c, "rmNetwork")
    BY <1>1, <2>1, GotoMoves DEF Pcs
  <2>2. CASE Fail(c)
    BY <1>1, <2>2, FailMoves
  <2>3. ASSUME NEW pc \in {"up", "rmMain"}, NEW result \in {"Ok", "Err"},
               call' = [call EXCEPT ![c].pc = pc, ![c].result = result]
        PROVE  Moved(c, pc)
    <3>1. call'[c] = [call[c] EXCEPT !.pc = pc, !.result = result] /\ call[c] \in Record
      BY <1>1, <2>3
    <3>2. call' = [call EXCEPT ![c] = call'[c]] /\ pc \in Pcs
      BY Zenon, <2>3, <3>1 DEF Pcs
    <3> QED BY Zenon, <3>1, <3>2 DEF Moved, Record, Kept
  <2>4. CASE GeneratorEnds(c)
    BY Zenon, <2>3, <2>4 DEF GeneratorEnds
  <2>5. CASE TargetReady(c)
    BY <2>3, <2>5 DEF TargetReady, podman
  <2> QED BY <2>1, <2>2, <2>4, <2>5 DEF GeneratorTimesOut, TargetSilent, Stop, RemoveMain
<1>3. /\ containers' \subseteq containers
      /\ \A b \in Calls \ {c} : Main(b) \in containers => Main(b) \in containers'
  BY DEF GeneratorEnds, GeneratorTimesOut, TargetReady, TargetSilent, Stop, RemoveMain,
         podman, Main
<1>4. Containers(c)
  BY <1>1, <1>2, <1>3 DEF Containers, Moved, IInv, MainInv
<1>5. Stays(c) /\ Frame(c)
  BY <1>1, <1>2 DEF Stays, Frame, Owning, Admitted, Moved, Kept
<1>6. Report(c)
  BY <1>1, <1>2, OwnerFacts DEF IInv, ProbeInv, Report, Moved, Kept, Admitted
<1> QED BY <1>4, <1>5, <1>6, KeepingStep

-----------------------------------------------------------------------------
(***************************************************************************)
(* The steps that make or remove a network, and those of no single call.   *)
(***************************************************************************)
\* A call begins under its name or a stamp, or ends before it made anything.
LEMMA BeginStep ==
  ASSUME IInv, NEW c \in Calls, Begin(c) \/ Unavailable(c)
  PROVE  IInv'
<1>1. /\ call[c].pc = "idle" /\ call \in [Calls -> Record]
      /\ UNCHANGED <<networks, containers, late, masked, lost>>
  BY Zenon DEF Begin, Unavailable, podman, IInv, Types
<1>2. /\ call' = [call EXCEPT ![c] = call'[c]] /\ call'[c] \in Record
      /\ call'[c].pc \in {"create", "ended"}
      /\ call'[c].pc = "create" =>
           /\ call'[c].net \in IF call'[c].kind = "capability" THEN Stamps ELSE {c}
           /\ call'[c].proven = {}
  <2>1. CASE Unavailable(c)
    <3>1. call'[c] = [call[c] EXCEPT !.pc = "ended", !.result = "Err"] /\ call[c] \in Record
      BY <1>1, <2>1 DEF Unavailable, Return
    <3>2. call' = [call EXCEPT ![c] = call'[c]] /\ "ended" \in Pcs
      BY Zenon, <1>1, <2>1, <3>1 DEF Unavailable, Return, Pcs
    <3> QED BY Zenon, <3>1, <3>2 DEF Record
  <2>2. CASE Begin(c)
    <3>1. PICK kind \in Kinds : \E id \in IF kind = "capability" THEN Stamps ELSE {c} :
            call' = [call EXCEPT ![c] = [NoCall EXCEPT !.kind = kind, !.net = id,
                                                       !.pc = "create"]]
      BY Zenon, <2>2 DEF Begin
    <3>2. PICK id \in IF kind = "capability" THEN Stamps ELSE {c} :
            call' = [call EXCEPT ![c] = [NoCall EXCEPT !.kind = kind, !.net = id,
                                                       !.pc = "create"]]
      BY Zenon, <3>1
    <3>3. call'[c] = [NoCall EXCEPT !.kind = kind, !.net = id, !.pc = "create"]
      BY <1>1, <3>2
    <3>4. /\ call'[c] \in Record /\ call'[c].pc = "create"
          /\ call'[c].net = id /\ call'[c].kind = kind /\ call'[c].proven = {}
      BY Zenon, <3>3 DEF NoCall, Record, Pcs, Ids
    <3> QED BY Zenon, <3>2, <3>3, <3>4
  <2> QED BY <2>1, <2>2
<1>3. /\ \A b \in Calls \ {c} : call'[b] = call[b]
      /\ call' \in [Calls -> Record] /\ Networks' = Networks
      /\ call[c].pc \notin Owning /\ call'[c].pc \notin Owning
      /\ call'[c].pc \notin Admitted \cup {"rmMain", "rmNetwork", "wait", "up"}
  BY <1>1, <1>2 DEF Networks, Owning, Admitted
<1>4. Types' /\ NamesInv' /\ OwnerInv' /\ ProbeInv'
  <2>1. Types'
    BY <1>1, <1>3 DEF IInv, Types
  <2>2. NamesInv'
    BY <1>2, <1>3 DEF IInv, NamesInv
  <2>3. OwnerInv'
    BY <1>3 DEF IInv, OwnerInv
  <2>4. ProbeInv'
    BY <1>1, <1>2, <1>3 DEF IInv, ProbeInv
  <2> QED BY <2>1, <2>2, <2>3, <2>4
<1>5. LeftInv'
  <2>1. \A n : (Left(n) => Left(n)') /\ (Blamed(n) => Blamed(n)')
    BY <1>1, <1>3 DEF IInv, LeftInv, Left, Blamed
  <2> QED BY <1>1, <1>2, <1>3, <2>1 DEF IInv, LeftInv
<1>6. MainInv'
  <2>1. \A b \in Calls \ {c} : Main(b)' = Main(b)
    BY <1>3 DEF Main
  <2> QED BY <1>1, <1>2, <1>3, <2>1 DEF IInv, MainInv
<1> QED BY <1>4, <1>5, <1>6 DEF IInv

\* No main container has the name of a network that is not created yet.
LEMMA FreshName ==
  ASSUME IInv, NEW c \in Calls, call[c].pc = "create"
  PROVE  /\ call[c].net \in Ids /\ (call[c].net \in Calls => call[c].net = c)
         /\ \A k \in containers \cup late : k.role = "main" => k.id # call[c].net
BY Zenon, NamesAssumption DEF IInv, NamesInv, MainInv, Ids

\* A network of a new name, with some way out or none, disturbs nobody.
LEMMA NewNetwork ==
  ASSUME NEW n, NEW ways \in Openings, n \notin Networks, networks' = With(n, ways)
  PROVE  /\ Networks' = Networks \cup {n} /\ networks'[n] = ways /\ ways \subseteq AllWays
         /\ \A x \in Networks : networks'[x] = networks[x]
BY OpeningsAssumption DEF With, Networks

\* The network is created: the call owns it, with nothing proven yet.
LEMMA CreatedStep ==
  ASSUME IInv, NEW c \in Calls, call[c].pc = "create", Goto(c, "inspect"),
         NEW ways \in Openings, call[c].net \notin Networks,
         networks' = With(call[c].net, ways),
         UNCHANGED <<containers, late, masked, lost>>
  PROVE  IInv'
<1> DEFINE n == call[c].net
<1>1. /\ Networks' = Networks \cup {n} /\ networks'[n] = ways /\ ways \subseteq AllWays
      /\ \A x \in Networks : networks'[x] = networks[x]
  BY NewNetwork
<1>2. /\ Moved(c, "inspect") /\ call \in [Calls -> Record]
  BY GotoMoves DEF IInv, Types, Pcs
<1>3. /\ \A b \in Calls \ {c} : call'[b] = call[b]
      /\ call' \in [Calls -> Record] /\ call'[c].pc = "inspect" /\ "inspect" \in Owning
      /\ call'[c].net = n /\ call'[c].kind = call[c].kind /\ call'[c].proven = call[c].proven
      /\ call[c].pc \notin Owning
  BY <1>2 DEF Moved, Kept, Owning, Admitted
<1> HIDE DEF n
<1>4. Types'
  BY <1>1, <1>3, FreshName DEF IInv, Types, n
<1>5. NamesInv'
  BY <1>3 DEF IInv, NamesInv, n
<1>6. OwnerInv'
  BY <1>1, <1>3 DEF IInv, OwnerInv, n
<1>7. LeftInv'
  <2>1. /\ \A x : (Left(x) => Left(x)') /\ (Blamed(x) => Blamed(x)')
        /\ \A x : x = n => Left(x)'
    BY <1>3 DEF IInv, LeftInv, Left, Blamed
  <2> QED BY <1>1, <1>3, <2>1 DEF IInv, LeftInv
<1>8. ProbeInv'
  <2>1. /\ \A b \in Calls \ {c} : call[b].pc \in Owning => call[b].net \in Networks
        /\ {"rmNetwork", "inspect"} \cup Admitted \subseteq Owning
        /\ "inspect" \notin Admitted \cup {"rmMain", "create", "rmNetwork"}
    BY DEF IInv, OwnerInv, Owning, Admitted
  <2>2. call[c].proven = {}
    BY DEF IInv, ProbeInv
  <2> QED BY <1>1, <1>3, <2>1, <2>2 DEF IInv, ProbeInv
<1>9. MainInv'
  <2>1. \A b \in Calls : Main(b)' = Main(b)
    BY <1>3 DEF Main, n
  <2>2. \A k \in containers \cup late : k.role = "main" => k.id # n
    BY FreshName DEF n
  <2> QED BY <1>1, <1>3, <2>1, <2>2 DEF IInv, MainInv
<1> QED BY <1>4, <1>5, <1>6, <1>7, <1>8, <1>9 DEF IInv

\* It is not, or podman does not say so in time.
LEMMA NotCreatedStep ==
  ASSUME IInv, NEW c \in Calls, call[c].pc = "create", Return(c, "Err"), UNCHANGED masked,
         \/ UNCHANGED <<podman, lost>>
         \/ /\ Killed([role |-> "network", id |-> call[c].net, net |-> call[c].net])
            /\ lost' = [lost EXCEPT ![c] = @ \cup {"create"}]
  PROVE  IInv'
<1> DEFINE n == call[c].net
           r == [role |-> "network", id |-> n, net |-> n]
<1>1. /\ call \in [Calls -> Record] /\ lost \in [Calls -> SUBSET {"create", "rmNetwork"}]
      /\ n \in Ids /\ r \in Request /\ r.role = "network" /\ r.id = n /\ r.net = n
  BY FreshName DEF IInv, Types, Request
<1>2. /\ call' = [call EXCEPT ![c] = call'[c]] /\ call'[c] \in Record
      /\ call'[c].pc = "ended" /\ call'[c].net = n
  <2>1. call'[c] = [call[c] EXCEPT !.pc = "ended", !.result = "Err"] /\ call[c] \in Record
    BY <1>1 DEF Return
  <2>2. call' = [call EXCEPT ![c] = call'[c]] /\ "ended" \in Pcs
    BY Zenon, <1>1, <2>1 DEF Return, Pcs
  <2> QED BY Zenon, <2>1, <2>2 DEF Record
<1>3. /\ \A b \in Calls \ {c} : call'[b] = call[b]
      /\ call' \in [Calls -> Record]
      /\ call[c].pc \notin Owning /\ call'[c].pc \notin Owning
      /\ call'[c].pc \notin Admitted \cup {"rmMain", "rmNetwork", "create", "idle"}
  BY <1>1, <1>2 DEF Owning, Admitted
\* With the fault, the call is to blame for the network, now or later.
<1>4. /\ lost' \in [Calls -> SUBSET {"create", "rmNetwork"}]
      /\ \A b \in Calls : lost[b] # {} => lost'[b] # {}
      /\ \A b \in Calls \ {c} : lost'[b] = lost[b]
      /\ UNCHANGED containers
      /\ UNCHANGED networks \/ (lost'[c] # {} /\ n \notin Networks /\
                                \E ways \in Openings : networks' = With(n, ways))
      /\ UNCHANGED late \/ (lost'[c] # {} /\ late' = late \cup {r})
  BY <1>1 DEF Killed, podman
<1>5. /\ Networks \subseteq Networks' /\ Networks' \subseteq Networks \cup {n}
      /\ n \in Networks' \ Networks => lost'[c] # {} /\ networks'[n] \subseteq AllWays
      /\ \A x \in Networks : networks'[x] = networks[x]
  <2>1. CASE UNCHANGED networks
    BY <2>1 DEF Networks
  <2>2. CASE ~UNCHANGED networks
    BY <1>4, <2>2, NewNetwork
  <2> QED BY <2>1, <2>2
<1> HIDE DEF r, n
<1>6. /\ n = call[c].net /\ (n \in Calls => n = c)
      /\ \A k \in containers \cup late : k.role = "main" => k.id # n
  BY FreshName DEF n
<1>7. Types'
  BY <1>1, <1>3, <1>4, <1>5 DEF IInv, Types
<1>8. NamesInv' /\ OwnerInv'
  BY <1>3, <1>5 DEF IInv, NamesInv, OwnerInv
<1>9. LeftInv'
  <2>1. /\ \A x : (Left(x) => Left(x)') /\ (Blamed(x) => Blamed(x)')
        /\ \A x : lost'[c] # {} /\ x = n => Left(x)' /\ Blamed(x)'
    BY SMTT(60), <1>2, <1>3, <1>4 DEF IInv, LeftInv, Left, Blamed
  <2> QED BY SMTT(60), <1>1, <1>2, <1>3, <1>4, <1>5, <1>6, <2>1 DEF IInv, LeftInv
<1>10. ProbeInv'
  <2>1. /\ \A b \in Calls \ {c} : call[b].pc \in Owning => call[b].net \in Networks
        /\ {"rmNetwork"} \cup Admitted \subseteq Owning
    BY DEF IInv, OwnerInv, Owning
  <2> QED BY <1>3, <1>5, <2>1 DEF IInv, ProbeInv
<1>11. MainInv'
  <2>1. \A b \in Calls : Main(b)' = Main(b)
    BY <1>2, <1>3 DEF Main, n
  <2>2. {"wait", "up"} \subseteq Admitted
    BY DEF Admitted
  <2>3. \A k \in containers' \cup late' : k.role = "main" => k \in containers \cup late /\ k.id # n
    BY <1>1, <1>4, <1>6
  <2> QED BY SMTT(60), <1>1, <1>2, <1>3, <1>4, <1>5, <2>1, <2>2, <2>3 DEF IInv, MainInv
<1> QED BY <1>7, <1>8, <1>9, <1>10, <1>11 DEF IInv

\* create_internal_network.
LEMMA CreateStep ==
  ASSUME IInv, NEW c \in Calls, CreateNetwork(c)
  PROVE  IInv'
BY CreatedStep, NotCreatedStep DEF CreateNetwork

\* Only the owner removes a network, with the containers on it.
LEMMA RemoveStep ==
  ASSUME IInv, NEW c \in Calls, RemoveNetwork(c)
  PROVE  IInv'
<1> DEFINE n == call[c].net
<1>1. /\ call[c].pc = "rmNetwork" /\ call[c].pc \in Owning /\ call \in [Calls -> Record]
      /\ Moved(c, "ended") /\ UNCHANGED <<late, masked>>
      /\ lost \in [Calls -> SUBSET {"create", "rmNetwork"}]
  BY GotoMoves DEF RemoveNetwork, Owning, IInv, Types, Pcs
<1>2. /\ \A b \in Calls \ {c} : call'[b] = call[b]
      /\ call' \in [Calls -> Record] /\ call'[c].pc = "ended" /\ call'[c].net = n
      /\ "ended" \notin Owning \cup Admitted \cup {"create", "idle", "rmMain", "rmNetwork"}
  BY <1>1 DEF Moved, Kept, Owning, Admitted
<1>3. /\ lost' \in [Calls -> SUBSET {"create", "rmNetwork"}]
      /\ \A b \in Calls : lost[b] # {} => lost'[b] # {}
      /\ \A b \in Calls \ {c} : lost'[b] = lost[b]
      /\ Networks' \subseteq Networks /\ containers' \subseteq containers
      /\ Networks \ {n} \subseteq Networks'
      /\ \A k \in containers \ containers' : k.net = n
      /\ \A x \in Networks' : networks'[x] = networks[x]
      /\ n \in Networks' => lost'[c] # {} /\ UNCHANGED <<networks, containers>>
      /\ n \notin Networks' => \A k \in containers' : k.net # n
  <2>1. CASE networks' = Without(n) /\ containers' = containers \ On(n) /\ UNCHANGED lost
    BY <1>1, <2>1 DEF Without, On, Networks
  <2>2. CASE /\ UNCHANGED <<networks, containers>>
             /\ lost' = [lost EXCEPT ![c] = @ \cup {"rmNetwork"}]
    <3>1. n \in Networks
      BY <1>1, OwnerFacts
    <3> QED BY <1>1, <2>2, <3>1 DEF Networks
  <2> QED BY <2>1, <2>2 DEF RemoveNetwork
<1>4. \A b \in Calls \ {c} : call[b].pc \in Owning => call[b].net \in Networks /\ call[b].net # n
  BY <1>1 DEF IInv, OwnerInv
<1>5. Types'
  BY <1>1, <1>2, <1>3 DEF IInv, Types
<1>6. NamesInv' /\ OwnerInv'
  <2>1. NamesInv'
    BY <1>2 DEF IInv, NamesInv
  <2> HIDE DEF n
  <2>2. OwnerInv'
    BY <1>2, <1>3, <1>4 DEF IInv, OwnerInv
  <2> QED BY <2>1, <2>2
<1>7. LeftInv'
  <2>1. /\ \A x : Left(x) /\ x # n => Left(x)'
        /\ \A x : x = n /\ lost'[c] # {} => Left(x)'
        /\ \A x : Blamed(x) => Blamed(x)'
    BY <1>2, <1>3 DEF Left, Blamed
  <2> HIDE DEF n
  <2>2. \A x \in Networks' : Left(x)'
    BY <1>3, <2>1 DEF IInv, LeftInv
  <2>3. \A k \in containers' : k.net \in Networks'
    BY <1>3 DEF IInv, LeftInv
  <2> QED BY <1>1, <1>2, <1>3, <2>1, <2>2, <2>3 DEF IInv, LeftInv
<1>8. ProbeInv'
  <2>1. {"rmNetwork"} \cup Admitted \subseteq Owning
    BY DEF Owning
  <2> HIDE DEF n
  <2> QED BY SMTT(60), <1>1, <1>2, <1>3, <1>4, <2>1 DEF IInv, ProbeInv
<1>9. MainInv'
  <2>1. /\ \A b \in Calls : Main(b)' = Main(b) /\ Main(b).net = call[b].net
        /\ {"wait", "up"} \subseteq Owning
    BY <1>2 DEF Main, Owning, Admitted
  <2> HIDE DEF n
  <2>2. \A b \in Calls : call'[b].pc \in {"wait", "up"} => Main(b) \in containers'
    BY SMTT(30), <1>2, <1>3, <1>4, <2>1 DEF IInv, MainInv
  <2>3. \A k \in containers \cup late : k.role = "main" => call'[k.id].pc \notin {"idle", "create"}
    BY <1>2 DEF IInv, MainInv
  <2>4. \A k \in containers \cup late : k.role = "main" /\ k.net \in Networks' =>
          networks'[k.net] \subseteq masked[k.id]
    BY <1>3 DEF IInv, MainInv
  <2> QED BY SMTT(60), <1>1, <1>3, <2>1, <2>2, <2>3, <2>4 DEF IInv, MainInv
<1> QED BY <1>5, <1>6, <1>7, <1>8, <1>9 DEF IInv

\* What podman serves late has its failed command, and is no main container on
\* a network that was made after it was measured.
LEMMA ServeStep ==
  ASSUME IInv, ServeLate
  PROVE  IInv'
<1>1. PICK r \in late :
        /\ late' = late \ {r}
        /\ \/ /\ r.role = "network" /\ r.id \notin Networks /\ UNCHANGED containers
              /\ \E ways \in Openings : networks' = With(r.id, ways)
           \/ r.role # "network" /\ Startable(r) /\ containers' = containers \cup {r} /\ UNCHANGED networks
           \/ UNCHANGED <<networks, containers>>
        /\ UNCHANGED <<call, masked, lost, faults>>
  BY DEF ServeLate
<1>2. CASE UNCHANGED networks
  <2>1. /\ Networks' = Networks /\ r \in Request
        /\ \A k \in containers' \ containers : k = r /\ k \in Container /\ k.net \in Networks
        /\ containers \subseteq containers'
    <3>1. CASE r.role # "network" /\ Startable(r) /\ containers' = containers \cup {r}
      BY <1>2, <3>1 DEF Networks, Startable, IInv, Types, Request
    <3>2. CASE UNCHANGED <<networks, containers>>
      BY <3>2 DEF Networks, IInv, Types
    <3>3. r.role # "network" \/ UNCHANGED containers
      BY <1>1
    <3> QED BY <1>1, <1>2, <3>1, <3>2, <3>3
  <2>2. Types' /\ NamesInv' /\ OwnerInv' /\ ProbeInv'
    BY Zenon, <1>1, <1>2, <2>1 DEF IInv, Types, NamesInv, OwnerInv, ProbeInv
  <2>3. LeftInv'
    BY <1>1, <2>1 DEF IInv, LeftInv, Left, Blamed
  <2>4. MainInv'
    BY SMTT(30), <1>1, <1>2, <2>1 DEF IInv, MainInv, Main
  <2> QED BY <2>2, <2>3, <2>4 DEF IInv
<1>3. CASE ~UNCHANGED networks
  <2>1. PICK ways \in Openings : networks' = With(r.id, ways)
    BY <1>1, <1>3
  <2>2. r.role = "network" /\ r.id \notin Networks /\ UNCHANGED containers
    BY <1>1, <1>3
  <2>3. /\ Networks' = Networks \cup {r.id} /\ networks'[r.id] \subseteq AllWays
        /\ \A x \in Networks : networks'[x] = networks[x]
    BY <2>1, <2>2, NewNetwork
  <2>4. /\ r.id \in Ids /\ Blamed(r.id)
        /\ \A k \in containers \cup late : k.role = "main" => k.id # r.id
    BY <2>2 DEF IInv, Types, LeftInv, MainInv, Request, Container
  <2>5. Types' /\ NamesInv'
    BY <1>1, <2>2, <2>3, <2>4 DEF IInv, Types, NamesInv
  <2>6. OwnerInv'
    BY <1>1, <2>3 DEF IInv, OwnerInv
  <2>7. LeftInv'
    BY SMTT(30), <1>1, <2>2, <2>3, <2>4 DEF IInv, LeftInv, Left, Blamed
  <2>8. ProbeInv'
    <3>1. /\ \A b \in Calls : call[b].pc \in Owning => call[b].net \in Networks
          /\ {"rmNetwork"} \cup Admitted \subseteq Owning
      BY DEF IInv, OwnerInv, Owning
    <3> QED BY <1>1, <2>3, <3>1 DEF IInv, ProbeInv
  <2>9. MainInv'
    BY SMTT(60), <1>1, <2>2, <2>3, <2>4 DEF IInv, MainInv, Main
  <2> QED BY <2>5, <2>6, <2>7, <2>8, <2>9 DEF IInv
<1> QED BY <1>2, <1>3

\* A crash ends the calls and takes nothing away.
LEMMA CrashStep ==
  ASSUME IInv, Crash
  PROVE  IInv'
<1>1. UNCHANGED <<networks, containers, late, masked, lost>> /\ Networks' = Networks
  BY Zenon DEF Crash, podman, Networks
<1>2. \A b \in Calls :
        /\ call'[b] \in Record /\ call'[b].net = call[b].net
        /\ IF call[b].pc \in {"idle", "ended"} THEN call'[b] = call[b]
                                               ELSE call'[b].pc = "crashed"
  <2>1. SUFFICES ASSUME NEW b \in Calls, call[b].pc \notin {"idle", "ended"}
                 PROVE  /\ call'[b] \in Record /\ call'[b].net = call[b].net
                        /\ call'[b].pc = "crashed"
    BY Zenon DEF Crash, IInv, Types
  <2>2. call'[b] = [NoCall EXCEPT !.pc = "crashed", !.net = call[b].net] /\ call[b] \in Record
    BY Zenon, <2>1 DEF Crash, IInv, Types
  <2>3. call[b].net \in Ids \cup {"none"}
    BY <2>2 DEF Record
  <2> QED BY Zenon, <2>2, <2>3 DEF NoCall, Record, Pcs, Kinds
<1>3. call' \in [Calls -> Record]
  BY Zenon, <1>2 DEF Crash
<1>4. /\ {"idle", "ended", "crashed"} \cap (Owning \cup Admitted \cup {"create", "rmMain", "rmNetwork", "wait", "up"}) = {}
      /\ \A b \in Calls : call'[b].pc \in {"idle", "ended", "crashed"}
  BY <1>2 DEF Owning, Admitted
<1>5. Types' /\ NamesInv' /\ OwnerInv' /\ ProbeInv'
  BY <1>1, <1>3, <1>4 DEF IInv, Types, NamesInv, OwnerInv, ProbeInv
<1>6. LeftInv'
  <2>1. \A x : (Left(x) => Left(x)') /\ (Blamed(x) => Blamed(x)')
    BY <1>1, <1>2, <1>4 DEF Left, Blamed
  <2> QED BY <1>1, <1>2, <2>1 DEF IInv, LeftInv
<1>7. MainInv'
  BY <1>1, <1>2, <1>4 DEF IInv, MainInv
<1> QED BY <1>5, <1>6, <1>7 DEF IInv

-----------------------------------------------------------------------------
\* No call was made and podman has nothing.
LEMMA InitOK == Init => IInv
<1> SUFFICES ASSUME Init PROVE IInv
  OBVIOUS
<1>1. Networks = {} /\ containers = {} /\ late = {}
  BY DEF Init, Networks
<1>2. NoCall \in Record /\ NoCall.pc = "idle"
  BY DEF NoCall, Record, Pcs, Kinds
<1>3. /\ call \in [Calls -> Record] /\ \A c \in Calls : call[c].pc = "idle" /\ lost[c] = {}
      /\ masked \in [Calls -> SUBSET AllWays]
      /\ lost \in [Calls -> SUBSET {"create", "rmNetwork"}]
  BY <1>2 DEF Init
<1>4. "idle" \notin Owning \cup Admitted \cup {"create"}
  BY DEF Owning, Admitted
<1>5. Types /\ NamesInv /\ OwnerInv /\ LeftInv /\ ProbeInv /\ MainInv
  BY <1>1, <1>3, <1>4 DEF Types, NamesInv, OwnerInv, LeftInv, ProbeInv, MainInv
<1> QED BY <1>5 DEF IInv

\* Every step keeps the invariant.
LEMMA NextOK == IInv /\ [Next]_vars => IInv'
<1> SUFFICES ASSUME IInv, [Next]_vars PROVE IInv'
  OBVIOUS
<1>1. CASE UNCHANGED vars
  <2>1. /\ UNCHANGED <<networks, containers, late, call, masked, lost>>
        /\ Networks' = Networks /\ \A n : Left(n)' = Left(n) /\ Blamed(n)' = Blamed(n)
        /\ \A c : Main(c)' = Main(c)
    BY <1>1 DEF vars, Networks, Left, Blamed, Main
  <2>2. Types' /\ NamesInv' /\ OwnerInv'
    BY <2>1 DEF IInv, Types, NamesInv, OwnerInv
  <2>3. LeftInv'
    BY <2>1 DEF IInv, LeftInv
  <2>4. ProbeInv' /\ MainInv'
    BY <2>1 DEF IInv, ProbeInv, MainInv
  <2> QED BY <2>2, <2>3, <2>4 DEF IInv
<1>2. ASSUME NEW c \in Calls, Step(c) PROVE IInv'
  BY <1>2, CreateStep, SetupSteps, ListenerStep, ReachableStep, DeniedStep, VerdictStep,
     RunStep, MainSteps, RemoveStep DEF Step
<1> QED BY <1>1, <1>2, BeginStep, ServeStep, CrashStep DEF Next, Quiet

\* The inductive invariant holds throughout.
LEMMA Invariance == Spec => []IInv
BY InitOK, NextOK, PTL DEF Spec

\* exec_on_network and start run a target or a generator only on a network
\* that was measured to have no way out, but for ways whose probe podman
\* itself failed; a capability probe says yes only of such a network.  For any
\* calls, names, openings and failures.
THEOREM AdmittedStaysIsolated == Spec => []AdmittedIsIsolated
<1>1. IInv => AdmittedIsIsolated
  BY DEF IInv, ProbeInv, MainInv, AdmittedIsIsolated
<1> QED BY <1>1, Invariance, PTL

\* A call that returned has left no network and no container behind, whatever
\* podman serves late, unless its network create or its network removal
\* failed; any number of calls may run and fail meanwhile.
THEOREM NothingIsLeft == Spec => []NothingLeft
<1>1. IInv => NothingLeft
  <2>1. ASSUME LeftInv PROVE \A n \in Networks \cup {k.net : k \in containers} : Left(n)
    BY <2>1 DEF LeftInv
  <2>2. "ended" \notin Owning \cup {"crashed"}
    BY DEF Owning, Admitted
  <2> QED BY <2>1, <2>2 DEF IInv, Left, NothingLeft
<1> QED BY <1>1, Invariance, PTL

\* A target that start returned keeps its container and its network until
\* stop: cleanup and network rm -f of other calls never reach it.
THEOREM UpStaysPresent == Spec => []UpIsPresent
<1>1. IInv => UpIsPresent
  BY DEF IInv, OwnerInv, MainInv, UpIsPresent, Owning, Admitted
<1> QED BY <1>1, Invariance, PTL

\* A step counts at most one failed command, and stays within the bound.
LEMMA FaultsCounted ==
  ASSUME faults \in 0 .. MaxLoad, [Next]_vars
  PROVE  faults' \in 0 .. MaxLoad
<1>1. Fault \/ Fine
  <2>1. ASSUME NEW c \in Calls, Begin(c) \/ Unavailable(c) PROVE Fine
    BY <2>1 DEF Begin, Unavailable
  <2>2. ASSUME NEW c \in Calls, Step(c) PROVE Fault \/ Fine
    BY Zenon, <2>2 DEF Step, CreateNetwork, InspectNetwork, Preflight, StartListener,
                ProbeReachable, ProbeDenied, RemoveListener, RunMain, GeneratorEnds,
                GeneratorTimesOut, TargetReady, TargetSilent, Stop, RemoveMain, RemoveNetwork
  <2>3. CASE ServeLate \/ Crash \/ Quiet \/ UNCHANGED vars
    BY <2>3 DEF ServeLate, Crash, Quiet, vars, Fine
  <2> QED BY <2>1, <2>2, <2>3 DEF Next
<1> QED BY <1>1, LoadAssumption DEF Fault, Fine

\* Networks, containers, late requests and the record of every call keep their
\* types, and no more commands go wrong than the bound allows, for any calls,
\* names, openings and failures.
THEOREM SandboxTypes == Spec => []TypeOK
<1>1. Init => faults \in 0 .. MaxLoad
  BY LoadAssumption DEF Init
<1>2. faults \in 0 .. MaxLoad /\ [Next]_vars => (faults \in 0 .. MaxLoad)'
  BY FaultsCounted
<1>3. IInv /\ faults \in 0 .. MaxLoad => TypeOK
  BY DEF IInv, Types, TypeOK, Record
<1> QED BY <1>1, <1>2, <1>3, Invariance, PTL DEF Spec
=============================================================================
