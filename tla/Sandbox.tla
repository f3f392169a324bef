------------------------------- MODULE Sandbox --------------------------------
(***************************************************************************)
(* The rootless OCI sandbox: calls that drive the podman command line.     *)
(*                                                                         *)
(*   target      CampaignOciTarget::start, then stop when it is dropped;   *)
(*   generator   CampaignOciTarget::exec_generator_ex;                     *)
(*   capability  RootlessOciSandboxProvider::probe_containment.            *)
(*                                                                         *)
(* Each creates an internal network, measures it with short-lived probe    *)
(* containers, runs its main container only on a network that proved all   *)
(* five dimensions, and removes what it made.  A command that outlives its *)
(* deadline is killed, but podman may have served it, may serve it later   *)
(* or never: run_timeout kills the client, not the request.                *)
(***************************************************************************)
EXTENDS Naturals, FiniteSets

CONSTANTS
  Calls,       \* calls, each made once; a call's identity is its SandboxId
  Stamps,      \* pid and millisecond, from which a capability probe makes names
  Openings,    \* the sets of ways out that an --internal network may have
  MaxLoad      \* calls, and commands that fail or exceed their deadline, in all

ASSUME LoadAssumption  == MaxLoad \in Nat
ASSUME NamesAssumption  == Calls \cap Stamps = {}

Kinds      == {"target", "generator", "capability"}
Dimensions == {"reachable", "egress", "dns", "gateway", "ipv6"}
Outcomes   == {"Proven", "Failed", "Indeterminate"}

\* The probe commands of a denial, each one a way out of the network.
Ways(d) == CASE d = "egress"  -> {"tcp"}
             [] d = "dns"     -> {"query", "resolvedTcp"}
             [] d = "gateway" -> {"gatewayPing", "gatewayTcp"}
             [] d = "ipv6"    -> {"ping6"}

AllWays == UNION {Ways(d) : d \in Dimensions \ {"reachable"}}

ASSUME OpeningsAssumption == Openings \subseteq SUBSET AllWays

VARIABLES
  networks,    \* podman: the ways out of each existing network, by name
  containers,  \* podman: the existing containers and the network of each
  late,        \* podman: requests of killed clients that it may still serve
  call,        \* control point, names and report of each call
  masked,      \* per call, the ways whose probe never ran: podman itself failed
  lost,        \* per call, the commands whose failure can leave a network behind
  faults       \* commands that failed or timed out so far

podman == <<networks, containers, late>>
vars   == <<networks, containers, late, call, masked, lost, faults>>

-----------------------------------------------------------------------------
Ids == Calls \cup Stamps
Pcs == {"idle", "create", "inspect", "preflight", "listen", "reachable", "egress",
        "dns", "gateway", "ipv6", "unlisten", "run", "running", "wait", "up",
        "rmMain", "rmNetwork", "ended", "crashed"}

\* A container is named for its role and for the call or the stamp it is of;
\* a probe container of `podman run --rm` has a name podman makes up.
Container == [role : {"main", "listener", "probe"}, id : Ids, net : Ids]
Request   == Container \cup [role : {"network"}, id : Ids, net : Ids]

NoCall == [pc |-> "idle", kind |-> "target", net |-> "none", listener |-> "none",
           proven |-> {}, serves |-> FALSE, result |-> "none"]

Networks == DOMAIN networks
On(n)    == {k \in containers : k.net = n}

TypeOK ==
  /\ Networks \subseteq Ids /\ \A n \in Networks : networks[n] \subseteq AllWays
  /\ containers \subseteq Container /\ late \subseteq Request
  /\ call \in [Calls -> [pc : Pcs, kind : Kinds, net : Ids \cup {"none"},
                         listener : Ids \cup {"none"}, proven : SUBSET Dimensions,
                         serves : BOOLEAN, result : {"none", "Ok", "Err"}]]
  /\ masked \in [Calls -> SUBSET AllWays]
  /\ lost \in [Calls -> SUBSET {"create", "rmNetwork"}]
  /\ faults \in 0 .. MaxLoad

Init ==
  /\ networks = [n \in {} |-> {}] /\ containers = {} /\ late = {}
  /\ call = [c \in Calls |-> NoCall]
  /\ masked = [c \in Calls |-> {}] /\ lost = [c \in Calls |-> {}]
  /\ faults = 0

-----------------------------------------------------------------------------
(***************************************************************************)
(* podman.                                                                 *)
(***************************************************************************)
Without(n) == [x \in Networks \ {n} |-> networks[x]]
With(n, ways) == [x \in Networks \cup {n} |-> IF x = n THEN ways ELSE networks[x]]

\* podman refuses a container whose network is gone or whose name is taken.
Startable(k) ==
  /\ k.net \in Networks
  /\ k.role # "probe" => \A x \in containers : x.role = k.role => x.id # k.id

\* One request of a killed client is served, or refused, after all.
ServeLate ==
  \E r \in late :
    /\ late' = late \ {r}
    /\ \/ /\ r.role = "network" /\ r.id \notin Networks
          /\ \E ways \in Openings : networks' = With(r.id, ways)
          /\ UNCHANGED containers
       \/ /\ r.role # "network" /\ Startable(r)
          /\ containers' = containers \cup {r} /\ UNCHANGED networks
       \/ r.role # "network" /\ ~Startable(r) /\ UNCHANGED <<networks, containers>>
    /\ UNCHANGED <<call, masked, lost, faults>>

\* The command that asked for r is killed at its deadline: r was served, is
\* still to be served, or is lost.
Killed(r) ==
  \/ UNCHANGED podman
  \/ late' = late \cup {r} /\ UNCHANGED <<networks, containers>>
  \/ /\ r.role = "network" /\ r.id \notin Networks
     /\ \E ways \in Openings : networks' = With(r.id, ways)
     /\ UNCHANGED <<containers, late>>
  \/ /\ r.role # "network" /\ Startable(r)
     /\ containers' = containers \cup {r} /\ UNCHANGED <<networks, late>>

Load  == faults + Cardinality({c \in Calls : call[c].pc # "idle"})
Fault == faults < MaxLoad /\ Load < MaxLoad /\ faults' = faults + 1
Fine  == UNCHANGED faults

-----------------------------------------------------------------------------
(***************************************************************************)
(* The steps of a call.                                                    *)
(***************************************************************************)
Goto(c, pc) == call' = [call EXCEPT ![c].pc = pc]
Return(c, result) == call' = [call EXCEPT ![c].pc = "ended", ![c].result = result]

\* An error of a campaign call after its network exists goes through cleanup;
\* a capability probe only removes its network.
Fail(c) ==
  call' = [call EXCEPT ![c].pc = IF call[c].kind = "capability" THEN "rmNetwork"
                                                                 ELSE "rmMain",
                       ![c].result = "Err"]

\* podman is found and reachable, the tree and the image are there: a campaign
\* call names its network for itself, a capability probe for the time.
Begin(c) ==
  /\ call[c].pc = "idle" /\ Load < MaxLoad
  /\ \E kind \in Kinds : \E id \in IF kind = "capability" THEN Stamps ELSE {c} :
       call' = [call EXCEPT ![c] = [NoCall EXCEPT !.kind = kind, !.net = id,
                                                  !.pc = "create"]]
  /\ Fine /\ UNCHANGED <<podman, masked, lost>>

\* One of these is missing: nothing was made yet.
Unavailable(c) ==
  /\ call[c].pc = "idle" /\ Load < MaxLoad /\ Return(c, "Err")
  /\ Fine /\ UNCHANGED <<podman, masked, lost>>

\* `?` on create_internal_network and the early return of the capability probe:
\* a create that did not succeed is not followed by any removal.
CreateNetwork(c) ==
  LET n == call[c].net
      r == [role |-> "network", id |-> n, net |-> n] IN
  /\ call[c].pc = "create" /\ UNCHANGED masked
  /\ \/ /\ n \notin Networks /\ Fine /\ Goto(c, "inspect")
        /\ \E ways \in Openings : networks' = With(n, ways)
        /\ UNCHANGED <<containers, late, lost>>
     \/ n \in Networks /\ Fine /\ Return(c, "Err") /\ UNCHANGED <<podman, lost>>
     \/ /\ Fault /\ Return(c, "Err") /\ Killed(r)
        /\ lost' = [lost EXCEPT ![c] = @ \cup {"create"}]

\* podman network inspect, which must report an internal network.
InspectNetwork(c) ==
  /\ call[c].pc = "inspect"
  /\ \/ call[c].net \in Networks /\ Fine /\ Goto(c, "preflight")
     \/ call[c].net \notin Networks /\ Fine /\ Fail(c)
     \/ Fault /\ Fail(c)
  /\ UNCHANGED <<podman, masked, lost>>

\* A probe container that outlives its client: run --rm removes it only when
\* its command ends.
Stray(c) == [role |-> "probe", id |-> c, net |-> call[c].net]

\* resolve_probe_image and the check that the image has nc, ping and nslookup.
Preflight(c) ==
  /\ call[c].pc = "preflight"
  /\ \/ call[c].net \in Networks /\ Fine /\ Goto(c, "listen") /\ UNCHANGED podman
     \/ call[c].net \notin Networks /\ Fine /\ Fail(c) /\ UNCHANGED podman
     \/ Fault /\ Fail(c) /\ Killed(Stray(c))
  /\ UNCHANGED <<masked, lost>>

\* run -d of the container that listens for the reachability probe; its name
\* has an id of its own in a campaign call, a time stamp in a capability probe.
StartListener(c) ==
  /\ call[c].pc = "listen"
  /\ \E id \in IF call[c].kind = "capability" THEN Stamps ELSE {c} :
       LET k == [role |-> "listener", id |-> id, net |-> call[c].net]
           Then(pc) == call' = [call EXCEPT ![c].pc = pc, ![c].listener = id] IN
       \/ /\ Startable(k) /\ Fine /\ Then("reachable")
          /\ containers' = containers \cup {k} /\ UNCHANGED <<networks, late>>
       \/ ~Startable(k) /\ Fine /\ Then("egress") /\ UNCHANGED podman
       \/ Fault /\ Then("egress") /\ Killed(k)
  /\ UNCHANGED <<masked, lost>>

\* allow_transport: proven only by a connection to the listener.
ProbeReachable(c) ==
  /\ call[c].pc = "reachable"
  /\ \/ /\ [role |-> "listener", id |-> call[c].listener, net |-> call[c].net]
             \in containers
        /\ call[c].net \in Networks /\ Fine /\ UNCHANGED podman
        /\ call' = [call EXCEPT ![c].pc = "egress",
                                ![c].proven = @ \cup {"reachable"}]
     \/ /\ [role |-> "listener", id |-> call[c].listener, net |-> call[c].net]
             \notin containers
        /\ Fine /\ Goto(c, "egress") /\ UNCHANGED podman
     \/ Fault /\ Goto(c, "egress") /\ Killed(Stray(c))
  /\ UNCHANGED <<masked, lost>>

\* What deny_transport and deny_command make of one command on network n: exit
\* status 0 is a way out, any other status is a denial, a timeout is neither.
\* A podman that could not run the command also exits with another status.
Measured(n, way) ==
  IF n \in Networks /\ way \in networks[n] THEN "Failed" ELSE "Proven"

combine_denialsAny(values) == IF "Proven" \in values THEN "Proven" ELSE "Failed"

combine_denials(values) ==
  IF "Failed" \in values THEN "Failed"
  ELSE IF values \subseteq {"Proven"} THEN "Proven" ELSE "Indeterminate"

AfterDimensionNamed(d) == CASE d = "egress" -> "dns_bypass" [] OTHER -> "unlisten"

AfterDimension(d) == CASE d = "egress" -> "dns" [] d = "dns" -> "gateway"
                       [] d = "gateway" -> "ipv6" [] d = "ipv6" -> "unlisten"

\* The commands of one denial, at most one of which goes wrong.
ProbeDenied(c, d) ==
  LET n == call[c].net
      Conclude(values) ==
        call' = [call EXCEPT ![c].pc = AfterDimension(d),
                   ![c].proven = @ \cup (IF combine_denials(values) = "Proven"
                                         THEN {d} ELSE {})]
      Others(w) == {Measured(n, x) : x \in Ways(d) \ {w}} IN
  /\ call[c].pc = d /\ UNCHANGED lost
  /\ \/ /\ Fine /\ Conclude({Measured(n, w) : w \in Ways(d)})
        /\ UNCHANGED <<podman, masked>>
     \/ \E w \in Ways(d) :
          /\ Fault
          /\ \/ Conclude(Others(w) \cup {"Indeterminate"}) /\ Killed(Stray(c))
                /\ UNCHANGED masked
             \/ /\ Conclude(Others(w) \cup {"Proven"}) /\ UNCHANGED podman
                /\ masked' = [masked EXCEPT ![c] = @ \cup {w}]

live_oci_claimable(proven) == proven = Dimensions

\* rm -f of the listener, whose status is ignored; then the verdict.
RemoveListener(c) ==
  LET claimable == live_oci_claimable(call[c].proven)
      Verdict(pc, result) ==
        call' = [call EXCEPT ![c] = [@ EXCEPT !.pc = pc, !.result = result,
                                              !.proven = {}, !.listener = "none"]] IN
  /\ call[c].pc = "unlisten"
  /\ \/ /\ Fine
        /\ containers' = {k \in containers :
                            ~(k.role = "listener" /\ k.id = call[c].listener)}
     \/ Fault /\ UNCHANGED containers
  /\ \/ /\ call[c].kind = "capability"
        /\ Verdict("rmNetwork", IF claimable THEN "Ok" ELSE "Err")
     \/ call[c].kind # "capability" /\ claimable /\ Verdict("run", "none")
     \/ call[c].kind # "capability" /\ ~claimable /\ Verdict("rmMain", "Err")
  /\ UNCHANGED <<networks, late, masked, lost>>

Main(c) == [role |-> "main", id |-> c, net |-> call[c].net]

\* run -d of the target, or run --rm of the generator.
RunMain(c) ==
  /\ call[c].pc = "run"
  /\ \/ /\ Startable(Main(c)) /\ Fine
        /\ containers' = containers \cup {Main(c)} /\ UNCHANGED <<networks, late>>
        /\ \/ call[c].kind = "generator" /\ Goto(c, "running")
           \/ /\ call[c].kind = "target"
              /\ \E serves \in BOOLEAN :
                   call' = [call EXCEPT ![c].pc = "wait", ![c].serves = serves]
     \/ ~Startable(Main(c)) /\ Fine /\ Fail(c) /\ UNCHANGED podman
     \/ Fault /\ Fail(c) /\ Killed(Main(c))
  /\ UNCHANGED <<masked, lost>>

\* The generator ends by itself and --rm removes it, with text or without.
GeneratorEnds(c) ==
  /\ call[c].pc = "running"
  /\ containers' = containers \ {Main(c)}
  /\ \E result \in {"Ok", "Err"} :
       call' = [call EXCEPT ![c].pc = "rmMain", ![c].result = result]
  /\ Fine /\ UNCHANGED <<networks, late, masked, lost>>

\* Its deadline comes first: the client is killed, the container runs on.
GeneratorTimesOut(c) ==
  /\ call[c].pc = "running" /\ Fault /\ Fail(c)
  /\ UNCHANGED <<podman, masked, lost>>

\* A connection to the published port succeeds, or eight seconds have passed.
TargetReady(c) ==
  /\ call[c].pc = "wait" /\ call[c].serves
  /\ call' = [call EXCEPT ![c].pc = "up", ![c].result = "Ok"]
  /\ Fine /\ UNCHANGED <<podman, masked, lost>>

TargetSilentNever(c) == FALSE /\ UNCHANGED vars

TargetSilent(c) ==
  /\ call[c].pc = "wait" /\ Fail(c)
  /\ Fine /\ UNCHANGED <<podman, masked, lost>>

\* stop, or drop.
Stop(c) ==
  /\ call[c].pc = "up" /\ Goto(c, "rmMain")
  /\ Fine /\ UNCHANGED <<podman, masked, lost>>

RemoveMainAll(c) ==
  /\ call[c].pc = "rmMain" /\ Goto(c, "rmNetwork")
  /\ Fine /\ containers' = {k \in containers : k.role # "main"}
  /\ UNCHANGED <<networks, late, masked, lost>>

\* cleanup: two removals whose status is ignored.
RemoveMain(c) ==
  /\ call[c].pc = "rmMain" /\ Goto(c, "rmNetwork")
  /\ \/ Fine /\ containers' = {k \in containers : ~(k.role = "main" /\ k.id = c)}
     \/ Fault /\ UNCHANGED containers
  /\ UNCHANGED <<networks, late, masked, lost>>

RemoveNetworkUnused(c) ==
  LET n == call[c].net IN
  /\ call[c].pc = "rmNetwork" /\ Goto(c, "ended") /\ Fine
  /\ networks' = IF On(n) = {} THEN Without(n) ELSE networks
  /\ UNCHANGED <<containers, late, masked, lost>>

\* network rm -f takes the containers of the network with it.
RemoveNetwork(c) ==
  LET n == call[c].net IN
  /\ call[c].pc = "rmNetwork" /\ Goto(c, "ended")
  /\ \/ /\ Fine /\ networks' = Without(n) /\ containers' = containers \ On(n)
        /\ UNCHANGED lost
     \/ /\ Fault /\ UNCHANGED <<networks, containers>>
        /\ lost' = [lost EXCEPT ![c] = @ \cup {"rmNetwork"}]
  /\ UNCHANGED <<late, masked>>

Step(c) ==
  \/ CreateNetwork(c) \/ InspectNetwork(c) \/ Preflight(c)
  \/ StartListener(c) \/ ProbeReachable(c)
  \/ \E d \in Dimensions \ {"reachable"} : ProbeDenied(c, d)
  \/ RemoveListener(c) \/ RunMain(c) \/ GeneratorEnds(c) \/ GeneratorTimesOut(c)
  \/ TargetReady(c) \/ TargetSilent(c) \/ Stop(c) \/ RemoveMain(c)
  \/ RemoveNetwork(c)

\* The process dies: no destructor runs and nothing looks for its resources.
Crash ==
  /\ \E c \in Calls : call[c].pc \notin {"idle", "ended", "crashed"}
  /\ call' = [c \in Calls |-> IF call[c].pc \in {"idle", "ended"} THEN call[c]
                              ELSE [NoCall EXCEPT !.pc = "crashed", !.net = call[c].net]]
  /\ UNCHANGED <<podman, masked, lost, faults>>

\* All calls have returned or will not be made; a late request may still come.
Quiet ==
  /\ \A c \in Calls : call[c].pc \in {"idle", "ended", "crashed"}
  /\ UNCHANGED vars

Next == (\E c \in Calls : Begin(c) \/ Unavailable(c) \/ Step(c)) \/ ServeLate \/ Crash \/ Quiet

\* Every command of a call returns or is killed at its deadline.  Removals have
\* no deadline: that podman answers them is an assumption.
Spec == Init /\ [][Next]_vars /\ \A c \in Calls : WF_vars(Step(c))

-----------------------------------------------------------------------------
(***************************************************************************)
(* Properties.                                                             *)
(***************************************************************************)
\* start and exec_on_network run the target or the generator only on a network
\* that live_oci_claimable accepted.  So a main container, running or still to
\* be started by a killed client, is on a network with no way out, unless
\* podman itself failed at the very probe of that way; and a capability probe
\* that answers yes has measured such a network.
AdmittedIsIsolated ==
  /\ \A k \in containers \cup late :
       k.role = "main" /\ k.net \in Networks => networks[k.net] \subseteq masked[k.id]
  /\ \A c \in Calls :
       call[c].kind = "capability" /\ call[c].pc = "rmNetwork" /\ call[c].result = "Ok"
         => networks[call[c].net] \subseteq masked[c]

\* Whatever failed or timed out in between, and whatever podman serves late, a
\* call that has returned leaves no network and no container behind, the
\* generator with its writable mount included.  Two commands alone can break
\* this: a network create that timed out, which start, exec_generator_ex and
\* the capability probe do not undo, and the network removal itself.
NothingLeft ==
  \A n \in Networks \cup {k.net : k \in containers} :
    \E c \in Calls : call[c].net = n /\ (call[c].pc # "ended" \/ lost[c] # {})

\* A target that start returned keeps its container and its network until stop,
\* whatever other calls probe and remove meanwhile.
UpIsPresent ==
  \A c \in Calls : call[c].pc = "up" => Main(c) \in containers /\ call[c].net \in Networks

\* Every call returns, or hands out a running target: each command but the
\* removals has a deadline, the wait for the published port included.
CallsReturn ==
  \A c \in Calls : call[c].pc = "create" ~> call[c].pc \in {"up", "ended", "crashed"}
=============================================================================
