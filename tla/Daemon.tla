-------------------------------- MODULE Daemon --------------------------------
(***************************************************************************)
(* arosd while it serves: the supervisor that launches one research worker *)
(* and greets it, the task that answers the worker's tool intents, the     *)
(* HTTP handlers, and the state they share (the supervisor, the lab with   *)
(* its broker, ledger and artifacts, two counters, the registry).          *)
(*                                                                         *)
(* The supervisor and the lab are tokio mutexes that a task keeps across   *)
(* an await.  tokio serves waiters in order, so a mutex is the sequence of *)
(* the tasks that asked for it and its head is the owner.  The counters    *)
(* and the registry are locked for one statement only: one step each.      *)
(***************************************************************************)
EXTENDS Naturals, Sequences, FiniteSets, Functions

CONSTANTS
  Clients,     \* HTTP requests, each made once
  MaxFrames,   \* how many frames the worker sends after its Hello
  MaxLoad,     \* how many requests and frames there are in all
  MayHang      \* whether the worker may stop without closing its socket

ASSUME FramesAssumption  == MaxFrames \in Nat /\ MaxLoad \in Nat
ASSUME HangAssumption    == MayHang \in BOOLEAN
ASSUME ClientsAssumption == "loop" \notin Clients /\ Clients \cap 0 .. MaxFrames = {}

VARIABLES
  boot,        \* main before it serves: "launch", "hello", then "serving"
  supervisor, lab,     \* FIFO mutexes: the tasks that hold or wait, in order
  handled, executed,   \* AppState.intents_handled, intents_executed
  turns,       \* registry: the stored WorkerResearchTurns
  outcomes,    \* registry: the stored campaign outcomes
  events,      \* LabRuntime.ledger; an intent is decided once, order is left out
  cas,         \* the intents whose stdout and stderr are both in the artifact store
  loop,        \* handle_worker_intents: its control point, frame and result
  client,      \* the control point of each HTTP handler
  reply,       \* the decision each tool-intent handler got from the broker
  worker,      \* the worker process
  sent,        \* frames it has sent after its Hello
  up, down,    \* the socket, towards the daemon and towards the worker
  received     \* the results the worker has read

vars == <<boot, supervisor, lab, handled, executed, turns, outcomes, events,
          cas, loop, client, reply, worker, sent, up, down, received>>

http   == <<client, reply>>
remote == <<worker, sent, up, down, received>>

-----------------------------------------------------------------------------
Frames    == 1 .. MaxFrames
Intents   == Clients \cup Frames
Decisions == {"ALLOW", "DENY"}
Turn      == [id : Frames, decision : Decisions]
Events    == {"ToolRequested", "ToolDenied", "ToolAllowed"} \X Intents

\* What the worker can put in an envelope: an intent that converts or not, a
\* frame the loop skips (a heartbeat, an unexpected kind), and one that ends it
\* (a shutdown, bytes that do not decode).
Kinds == {"intent", "malformed", "skipped", "ending"}
Frame == [kind : Kinds, id : Frames]

\* The daemon's first frame; the others carry the result of an intent.
HelloAck == [id |-> 0, decision |-> "ALLOW"]

Waiting  == {"health", "report", "lab", "orphan", "receipt", "counted", "campaign"}
Finished == {"served", "answered", "uncounted", "unhandled", "left"}

\* Requests made and frames sent so far.
Load == sent + Cardinality({c \in Clients : client[c] # "new"})

\* The loop between two frames, with no intent in hand.
At(pc) == [pc |-> pc, id |-> 0, kind |-> "skipped", decision |-> "DENY"]

LoopState ==
  [pc : {"off", "lock", "read", "convert", "lab", "persist", "count", "write",
         "handled", "ended"},
   id : Frames \cup {0}, kind : Kinds, decision : Decisions]

Holds(task, mutex) == mutex # << >> /\ Head(mutex) = task

RemoveAt(s, i) == SubSeq(s, 1, i - 1) \o SubSeq(s, i + 1, Len(s))

\* A task asks for a mutex once at a time, so it has at most one place.
Without(task, mutex) ==
  IF task \in Range(mutex)
  THEN RemoveAt(mutex, CHOOSE i \in DOMAIN mutex : mutex[i] = task) ELSE mutex

TypeOK ==
  /\ boot \in {"launch", "hello", "serving"}
  /\ supervisor \in Seq(Clients \cup {"loop"}) /\ lab \in Seq(Clients \cup {"loop"})
  /\ handled \in Nat /\ executed \in Nat
  /\ turns \subseteq Turn /\ outcomes \subseteq Clients
  /\ events \subseteq Events /\ cas \subseteq Intents
  /\ loop \in LoopState
  /\ client \in [Clients -> {"new"} \cup Waiting \cup Finished]
  /\ reply \in [Clients -> Decisions]
  /\ worker \in {"none", "connecting", "greeting", "idle", "proposing", "waiting",
                 "hung", "exited"}
  /\ sent \in 0 .. MaxFrames
  /\ up \in Seq(Frame) /\ down \in Seq(Turn \cup {HelloAck})
  /\ received \subseteq Turn

Init ==
  /\ boot = "launch"
  /\ supervisor = << >> /\ lab = << >>
  /\ handled = 0 /\ executed = 0
  /\ turns = {} /\ outcomes = {} /\ events = {} /\ cas = {}
  /\ loop = At("off")
  /\ client = [c \in Clients |-> "new"] /\ reply = [c \in Clients |-> "DENY"]
  /\ worker = "none" /\ sent = 0 /\ up = << >> /\ down = << >> /\ received = {}

-----------------------------------------------------------------------------
(***************************************************************************)
(* spawn_research_worker, awaited by main before it serves.                *)
(***************************************************************************)
shared == <<supervisor, lab, handled, executed, turns, outcomes, events, cas>>

\* No image and no waiver, or the launch failed.
NoWorker ==
  /\ boot = "launch" /\ boot' = "serving"
  /\ UNCHANGED <<shared, loop, http, remote>>

Launch ==
  /\ boot = "launch" /\ boot' = "hello" /\ worker' = "connecting"
  /\ UNCHANGED <<shared, loop, http, sent, up, down, received>>

\* accept_hello: the stream is kept only once the ack is written.
AcceptHello ==
  /\ boot = "hello" /\ worker = "greeting"
  /\ boot' = "serving" /\ down' = Append(down, HelloAck)
  /\ loop' = At("lock")
  /\ UNCHANGED <<shared, http, worker, sent, up, received>>

\* A timeout, a bad token or another first frame.  A connection that was
\* accepted is dropped, which ends the worker; one that was not stays pending.
HandshakeFails ==
  /\ boot = "hello" /\ boot' = "serving"
  /\ worker' \in {worker} \cup (IF worker = "connecting" THEN {} ELSE {"exited"})
  /\ UNCHANGED <<shared, loop, http, sent, up, down, received>>

-----------------------------------------------------------------------------
(***************************************************************************)
(* The research worker.  Launched by arosd it only listens; launched with  *)
(* --research-campaign it proposes one intent at a time and exits.  Its    *)
(* socket has a timeout of 10 s, and a read that times out ends it.        *)
(***************************************************************************)
daemon == <<boot, shared, loop, http>>

Connect ==
  /\ worker = "connecting" /\ worker' = "greeting"
  /\ UNCHANGED <<daemon, sent, up, down, received>>

Receive ==
  /\ worker \in {"greeting", "idle", "waiting"} /\ down # << >>
  /\ down' = Tail(down)
  /\ received' = received \cup ({Head(down)} \ {HelloAck})
  /\ \/ worker \in {"greeting", "idle"} /\ worker' = "idle"
     \/ worker \in {"greeting", "waiting"} /\ worker' = "proposing"
  /\ UNCHANGED <<daemon, sent, up>>

\* _send_intent, then the wait for its result.
Propose(kind) ==
  /\ worker = "proposing" /\ sent < MaxFrames /\ Load < MaxLoad
  /\ sent' = sent + 1 /\ worker' = "waiting"
  /\ up' = Append(up, [kind |-> kind, id |-> sent + 1])
  /\ UNCHANGED <<daemon, down, received>>

\* Frames of the wire protocol that ask for no answer.
Notify(kind) ==
  /\ worker = "idle" /\ sent < MaxFrames /\ Load < MaxLoad
  /\ sent' = sent + 1
  /\ up' = Append(up, [kind |-> kind, id |-> sent + 1])
  /\ UNCHANGED <<daemon, worker, down, received>>

CampaignEnds ==
  /\ worker = "proposing" /\ worker' = "exited"
  /\ UNCHANGED <<daemon, sent, up, down, received>>

\* Mutant: the worker lifts its socket timeout once it is connected.
TimedOutGreeting == {"greeting"}

\* The states of the worker in which it reads, all under the socket's timeout.
TimedOutStates == {"greeting", "idle", "waiting"}

ReadTimesOut ==
  /\ worker \in TimedOutStates /\ down = << >> /\ worker' = "exited"
  /\ UNCHANGED <<daemon, sent, up, down, received>>

WorkerCrashes ==
  /\ worker \in {"connecting", "greeting", "idle", "proposing", "waiting"}
  /\ worker' \in {"exited"} \cup (IF MayHang THEN {"hung"} ELSE {})
  /\ UNCHANGED <<daemon, sent, up, down, received>>

-----------------------------------------------------------------------------
(***************************************************************************)
(* LabRuntime::execute, under the lab mutex: the broker logs the request,  *)
(* asks the policy and, when allowed, dispatches and stores the output.  A *)
(* dispatch or a store that fails leaves ToolAllowed and answers DENY.  A  *)
(* lab that requires containment denies every intent: its behaviours are   *)
(* among these.                                                            *)
(***************************************************************************)
Execute(id, task, outcome) ==
  LET decided == IF outcome = "denied" THEN "ToolDenied" ELSE "ToolAllowed"
  IN  /\ Holds(task, lab) /\ lab' = Tail(lab)
      /\ events' = events \cup {<<"ToolRequested", id>>, <<decided, id>>}
      /\ cas' = cas \cup (IF outcome = "done" THEN {id} ELSE {})

\* Mutant: the answer repeats the policy's verdict and forgets the dispatch.
DecisionOfPolicy(outcome) == IF outcome = "denied" THEN "DENY" ELSE "ALLOW"

Decision(outcome) == IF outcome = "done" THEN "ALLOW" ELSE "DENY"
Outcomes == {"denied", "failed", "done"}

-----------------------------------------------------------------------------
(***************************************************************************)
(* handle_worker_intents.  It keeps the supervisor while it waits for a    *)
(* frame and asks for it again to write the result.                        *)
(***************************************************************************)
LoopLock ==
  /\ loop.pc = "lock" /\ supervisor' = Append(supervisor, "loop")
  /\ loop' = [loop EXCEPT !.pc = "read"]
  /\ UNCHANGED <<boot, lab, handled, executed, turns, outcomes, events, cas,
                 http, remote>>

\* Mutant: an unexpected envelope has no arm of its own.
AfterUnmatched(kind) ==
  CASE kind \in {"intent", "malformed"} -> "convert"
    [] kind = "skipped"                 -> "unmatched"
    [] OTHER                            -> "ended"

After(kind) ==
  CASE kind \in {"intent", "malformed"} -> "convert"
    [] kind = "skipped"                 -> "lock"
    [] OTHER                            -> "ended"

LoopRead ==
  /\ loop.pc = "read" /\ Holds("loop", supervisor) /\ up # << >>
  /\ supervisor' = Tail(supervisor) /\ up' = Tail(up)
  /\ loop' = IF After(Head(up).kind) # "convert" THEN At(After(Head(up).kind))
             ELSE [At("convert") EXCEPT !.id = Head(up).id, !.kind = Head(up).kind]
  /\ UNCHANGED <<boot, lab, handled, executed, turns, outcomes, events, cas,
                 http, worker, sent, down, received>>

LoopReadFails ==
  /\ loop.pc = "read" /\ Holds("loop", supervisor)
  /\ up = << >> /\ worker = "exited"
  /\ supervisor' = Tail(supervisor) /\ loop' = At("ended")
  /\ UNCHANGED <<boot, lab, handled, executed, turns, outcomes, events, cas,
                 http, remote>>

\* intent_from_msg, then the blocking task that will want the lab.
LoopConvert ==
  /\ loop.pc = "convert"
  /\ IF loop.kind = "malformed"
     THEN /\ loop' = [loop EXCEPT !.pc = "persist", !.decision = "DENY"]
          /\ UNCHANGED lab
     ELSE /\ loop' = [loop EXCEPT !.pc = "lab"]
          /\ lab' = Append(lab, "loop")
  /\ UNCHANGED <<boot, supervisor, handled, executed, turns, outcomes, events,
                 cas, http, remote>>

LoopExecute(outcome) ==
  /\ loop.pc = "lab" /\ Execute(loop.id, "loop", outcome)
  /\ loop' = [loop EXCEPT !.pc = "persist", !.decision = Decision(outcome)]
  /\ UNCHANGED <<boot, supervisor, handled, executed, turns, outcomes, http,
                 remote>>

\* A turn that cannot be stored is only logged.
LoopPersist ==
  /\ loop.pc = "persist"
  /\ turns' \in {turns, turns \cup {[id |-> loop.id, decision |-> loop.decision]}}
  /\ loop' = [loop EXCEPT !.pc = "count"]
  /\ UNCHANGED <<boot, supervisor, lab, handled, executed, outcomes, events,
                 cas, http, remote>>

LoopCount ==
  /\ loop.pc = "count"
  /\ executed' = executed + (IF loop.decision = "ALLOW" THEN 1 ELSE 0)
  /\ supervisor' = Append(supervisor, "loop")
  /\ loop' = [loop EXCEPT !.pc = "write"]
  /\ UNCHANGED <<boot, lab, handled, turns, outcomes, events, cas, http, remote>>

\* Mutant: a result that could not be written is counted as handled.
LoopWriteUnchecked ==
  /\ loop.pc = "write" /\ Holds("loop", supervisor)
  /\ supervisor' = Tail(supervisor)
  /\ loop' = [loop EXCEPT !.pc = "handled"]
  /\ down' \in {Append(down, [id |-> loop.id, decision |-> loop.decision])}
               \cup (IF worker = "exited" THEN {down} ELSE {})
  /\ UNCHANGED <<boot, lab, handled, executed, turns, outcomes, events, cas,
                 http, worker, sent, up, received>>

\* write_next fails only on a closed socket, where it may also succeed.
LoopWrite ==
  /\ loop.pc = "write" /\ Holds("loop", supervisor)
  /\ supervisor' = Tail(supervisor)
  /\ \/ /\ loop' = [loop EXCEPT !.pc = "handled"]
        /\ down' = Append(down, [id |-> loop.id, decision |-> loop.decision])
     \/ /\ worker = "exited" /\ loop' = At("ended")
        /\ UNCHANGED down
  /\ UNCHANGED <<boot, lab, handled, executed, turns, outcomes, events, cas,
                 http, worker, sent, up, received>>

LoopHandled ==
  /\ loop.pc = "handled" /\ handled' = handled + 1
  /\ loop' = At("lock")
  /\ UNCHANGED <<boot, supervisor, lab, executed, turns, outcomes, events, cas,
                 http, remote>>

-----------------------------------------------------------------------------
(***************************************************************************)
(* The HTTP handlers.  A handler whose client disconnects is dropped at    *)
(* its next await; a task it gave to the blocking pool runs on.            *)
(***************************************************************************)
New(c) == boot = "serving" /\ client[c] = "new" /\ Load < MaxLoad
Step(c, pc) == client' = [client EXCEPT ![c] = pc]

\* A request without the token, a tool intent that does not convert, and the
\* three handlers that only read the registry.
AnswerAtOnce(c) ==
  /\ New(c) /\ Step(c, "served")
  /\ UNCHANGED <<boot, shared, loop, reply, remote>>

ToolIntent(c) ==
  /\ New(c) /\ Step(c, "lab")
  /\ lab' = Append(lab, c)
  /\ UNCHANGED <<boot, supervisor, handled, executed, turns, outcomes, events,
                 cas, loop, reply, remote>>

ToolExecute(c, outcome) ==
  /\ client[c] \in {"lab", "orphan"} /\ Execute(c, c, outcome)
  /\ Step(c, IF client[c] = "lab" THEN "receipt" ELSE "uncounted")
  /\ reply' = [reply EXCEPT ![c] = Decision(outcome)]
  /\ UNCHANGED <<boot, supervisor, handled, executed, turns, outcomes, loop,
                 remote>>

ToolCount(c) ==
  /\ client[c] = "receipt" /\ Step(c, "counted")
  /\ executed' = executed + (IF reply[c] = "ALLOW" THEN 1 ELSE 0)
  /\ UNCHANGED <<boot, supervisor, lab, handled, turns, outcomes, events, cas, loop,
                 reply, remote>>

ToolHandled(c) ==
  /\ client[c] = "counted" /\ Step(c, "answered") /\ handled' = handled + 1
  /\ UNCHANGED <<boot, supervisor, lab, executed, turns, outcomes, events, cas,
                 loop, reply, remote>>

\* fixture_campaign: an outcome that cannot be stored is only logged.
FixtureCampaign(c) ==
  /\ New(c) /\ Step(c, "campaign")
  /\ UNCHANGED <<boot, shared, loop, reply, remote>>

FixtureDone(c) ==
  /\ client[c] = "campaign" /\ Step(c, "served")
  /\ outcomes' \in {outcomes, outcomes \cup {c}}
  /\ UNCHANGED <<boot, supervisor, lab, handled, executed, turns, events, cas,
                 loop, reply, remote>>

\* health: the supervisor, then with it the lab.
Health(c) ==
  /\ New(c) /\ Step(c, "health")
  /\ supervisor' = Append(supervisor, c)
  /\ UNCHANGED <<boot, lab, handled, executed, turns, outcomes, events, cas,
                 loop, reply, remote>>

HealthLab(c) ==
  /\ client[c] = "health" /\ Holds(c, supervisor) /\ Step(c, "report")
  /\ lab' = Append(lab, c)
  /\ UNCHANGED <<boot, supervisor, handled, executed, turns, outcomes, events,
                 cas, loop, reply, remote>>

HealthReport(c) ==
  /\ client[c] = "report" /\ Holds(c, lab) /\ Step(c, "served")
  /\ lab' = Tail(lab) /\ supervisor' = Tail(supervisor)
  /\ UNCHANGED <<boot, handled, executed, turns, outcomes, events, cas, loop,
                 reply, remote>>

\* Where a handler is left when its client goes; its locks and its places in
\* the queues go with it, except the blocking task's place at the lab.
LeftAt(pc) == CASE pc = "lab"     -> "orphan"
                [] pc = "receipt" -> "uncounted"
                [] pc = "counted" -> "unhandled"
                [] OTHER          -> "left"

\* Mutant: a handler that is dropped keeps its place at the lab.
ClientLeavesLab(c) ==
  /\ client[c] \in Waiting \ {"orphan"} /\ Step(c, LeftAt(client[c]))
  /\ supervisor' = Without(c, supervisor)
  /\ UNCHANGED <<boot, lab, handled, executed, turns, outcomes, events, cas, loop,
                 reply, remote>>

ClientLeaves(c) ==
  /\ client[c] \in Waiting \ {"orphan"} /\ Step(c, LeftAt(client[c]))
  /\ supervisor' = Without(c, supervisor)
  /\ lab' = IF client[c] = "lab" THEN lab ELSE Without(c, lab)
  /\ UNCHANGED <<boot, handled, executed, turns, outcomes, events, cas, loop,
                 reply, remote>>

-----------------------------------------------------------------------------
Boot == NoWorker \/ Launch \/ AcceptHello \/ HandshakeFails

Worker ==
  \/ Connect \/ Receive \/ CampaignEnds \/ ReadTimesOut
  \/ \E kind \in {"intent", "malformed"} : Propose(kind)

Loop ==
  \/ LoopLock \/ LoopRead \/ LoopReadFails \/ LoopConvert
  \/ \E outcome \in Outcomes : LoopExecute(outcome)
  \/ LoopPersist \/ LoopCount \/ LoopWrite \/ LoopHandled

Arrive(c) == AnswerAtOnce(c) \/ ToolIntent(c) \/ FixtureCampaign(c) \/ Health(c)

Serve(c) ==
  \/ \E outcome \in Outcomes : ToolExecute(c, outcome)
  \/ ToolCount(c) \/ ToolHandled(c) \/ FixtureDone(c) \/ HealthLab(c) \/ HealthReport(c)

\* Nothing is asked of the daemon any more; it keeps listening.
Quiet ==
  /\ \A c \in Clients : client[c] \in {"new"} \cup Finished
  /\ UNCHANGED vars

Next ==
  \/ Boot \/ Worker \/ Loop \/ WorkerCrashes \/ Quiet
  \/ \E kind \in {"skipped", "ending"} : Notify(kind)
  \/ \E c \in Clients : Arrive(c) \/ Serve(c) \/ ClientLeaves(c)

\* tokio polls every ready task and grants a mutex in order; the handshake, the
\* broker's dispatch and the worker's reads have timeouts.  Nothing makes a
\* client ask or leave, or a worker crash or send a notification.
Fairness ==
  /\ WF_vars(Boot) /\ WF_vars(Worker) /\ WF_vars(Loop)
  /\ \A c \in Clients : WF_vars(Serve(c))

Spec == Init /\ [][Next]_vars /\ Fairness

-----------------------------------------------------------------------------
(***************************************************************************)
(* Properties.                                                             *)
(***************************************************************************)
\* Executions in the artifact store that intents_executed does not count: one
\* on its way to the counter, or one whose client went away before it.
Uncounted ==
  {id \in cas : \/ id = loop.id /\ loop.pc \in {"persist", "count"}
                \/ id \in Clients /\ client[id] \in {"receipt", "uncounted"}}

\* Results written to the worker: those it read and those still in the socket.
Written == received \cup (Range(down) \ {HelloAck})

Answered == {c \in Clients : client[c] = "answered"}

\* The counters of /health against what happened, under every interleaving of
\* the worker loop with the handlers and with vanishing clients: executed is
\* the number of outputs the broker stored, handled the number of results
\* written to the worker or to an HTTP client, short only of those in flight
\* or abandoned (main.rs, handle_worker_intents and tool_intent).
CountersAccountable ==
  /\ executed + Cardinality(Uncounted) = Cardinality(cas)
  /\ handled + (IF loop.pc = "handled" THEN 1 ELSE 0)
       = Cardinality(Written) + Cardinality(Answered)

\* What the worker is told, what the registry stores of it, what the lab ledger
\* decided and what the artifact store holds are the same story: no result or
\* turn says ALLOW unless the broker logged ToolAllowed and stored both outputs,
\* and none says DENY of an intent whose outputs are stored.
OneStory ==
  /\ \A t \in turns \cup received : t.decision = "ALLOW" <=> t.id \in cas
  /\ \A id \in cas : <<"ToolAllowed", id>> \in events

\* Who is at a mutex, as owner or waiting, by their control points.
AtSupervisor ==
  {c \in Clients : client[c] \in {"health", "report"}}
    \cup {t \in {"loop"} : loop.pc \in {"read", "write"}}

AtLab ==
  {c \in Clients : client[c] \in {"lab", "orphan", "report"}}
    \cup {t \in {"loop"} : loop.pc = "lab"}

\* Both mutexes are held and waited for by exactly the tasks that are at them,
\* each in one place, so that a handler that was dropped blocks nobody; and the
\* only task that is at both, a /health report, owns the supervisor: nobody
\* waits for the supervisor with the lab in hand, so they cannot deadlock.
LocksInOrder ==
  /\ Range(supervisor) = AtSupervisor /\ Range(lab) = AtLab
  /\ IsInjective(supervisor) /\ IsInjective(lab)
  /\ \A c \in Clients : client[c] = "report" => Holds(c, supervisor)

\* Every request to the daemon ends, /health included, although the worker loop
\* keeps the supervisor for as long as the worker is silent: the worker's own
\* socket timeout is what bounds the wait, and nothing does if the worker hangs.
RequestsEnd ==
  \A c \in Clients :
    client[c] \in Waiting ~> client[c] \in Finished \/ worker = "hung"

\* docs/TECH_STACK.md, fault isolation: when Python hangs, AROS terminates it.
HungWorkerTerminated == worker = "hung" ~> worker = "exited"
=============================================================================
