-------------------------------- MODULE Broker --------------------------------
(***************************************************************************)
(* The trusted broker and what it leaves behind.  Processes share a        *)
(* content-addressed store: the daemon's lab, whose clients send tool      *)
(* intents, and campaigns, which send their own, store what they observe,  *)
(* record it in a ledger, persist the ledger in the shared database and    *)
(* end.  A process may die at any point.  Rows of the database may go bad, *)
(* which `evidence verify` has to notice.  A campaign's events without an  *)
(* artifact are left out, and its steps come in any order, which includes  *)
(* that of both kinds of campaign.  The target does not change meanwhile.  *)
(***************************************************************************)
EXTENDS Policy, Ledger, FiniteSets

CONSTANTS
  Campaigns,      \* campaigns, one process each
  Labs,           \* lab runtimes, one process each
  Intents,        \* the tool intents a client of the lab may send
  OwnIntents,     \* the tool intents of a campaign
  Manifest,       \* what the manifest of every process allows
  Canonical,      \* canonicalize: existing paths to real ones
  Symlinks,       \* the paths that are themselves symbolic links
  Bodies,         \* what an observation may contain
  MaxRequests,    \* tool intents and observations of all processes
  MaxDamage       \* rows that go bad

\* canonicalize returns an absolute path, without ".", ".." and empty parts.
ASSUME CanonicalAssumption ==
  \A p \in DOMAIN Canonical :
    /\ Canonical[p] \in Seq(STRING) /\ Canonical[p] # << >> /\ Canonical[p][1] = Absolute
    /\ \A i \in 2 .. Len(Canonical[p]) : Canonical[p][i] \notin Ignored \cup {Parent}

ASSUME ManifestAssumption ==
  {"require_containment", "roots", "names", "endpoints"} \subseteq DOMAIN Manifest

ASSUME BoundsAssumption == MaxRequests \in Nat /\ MaxDamage \in Nat

VARIABLES
  blobs,     \* the files at blob_path, by digest; a torn file has other bytes
  table,     \* the rows of ledger_events, by campaign
  run,       \* control point, private ledger and receipts of each process
  damage     \* rows gone bad so far

vars == <<blobs, table, run, damage>>

-----------------------------------------------------------------------------
Processes == Campaigns \cup Labs
Cwd       == <<".">>          \* a path that is not given
Nothing   == <<"nothing">>    \* the standard error of every tool
Torn      == <<"torn">>       \* bytes that are not the content yet

Event(kind, n) == [kind |-> kind, request |-> n]

Kinds == {"TargetSnapshotted", "ToolRequested", "ToolAllowed", "ToolDenied",
          "ObservationRecorded"}

\* One type invariant; the ledger in memory is a valid chain of events.
TypeOK ==
  /\ DOMAIN table = Campaigns /\ damage \in 0 .. MaxDamage
  /\ \A p \in Processes :
       /\ run[p].pc \in {"idle", "dispatch", "put", "ended", "crashed"}
       /\ run[p].tmp \in BOOLEAN /\ run[p].requests \in 0 .. MaxRequests /\ Cardinality(run[p].intent) <= 1
       /\ verify(run[p].ledger)
       /\ \A e \in Range(run[p].ledger) : e.record.kind \in Kinds

\* The first entry of a campaign names the digest of the source tree, which no
\* blob has.
Ledger0(p) ==
  IF p \in Campaigns THEN append(<< >>, Event("TargetSnapshotted", 0), <<<<"tree">>>>)
  ELSE << >>

\* A campaign has a contained sandbox or waives the demand; a lab has none.
Start(p) ==
  {[pc |-> "idle", require |-> b, demonstrated |-> b /\ p \in Campaigns, intent |-> {},
    todo |-> << >>, tmp |-> FALSE, made |-> << >>, ledger |-> Ledger0(p),
    receipts |-> {}, requests |-> 0] : b \in BOOLEAN}

Init ==
  /\ blobs = [d \in {} |-> d] /\ damage = 0
  /\ table = [c \in Campaigns |-> [i \in {} |-> i]]
  /\ run \in [Processes -> UNION {Start(p) : p \in Processes}]
  /\ \A p \in Processes : run[p] \in Start(p)

-----------------------------------------------------------------------------
(***************************************************************************)
(* ToolBroker::execute.                                                    *)
(***************************************************************************)
More(c) ==
  /\ run[c].requests < MaxRequests
  /\ SumFunction([p \in Processes |-> run[p].requests]) < MaxRequests

Set(c, r) == run' = [run EXCEPT ![c] = r]

\* The request, the verdict and the record of both.
Execute(c) ==
  LET n == run[c].requests + 1 IN
  /\ run[c].pc = "idle" /\ More(c)
  /\ \E intent \in IF c \in Labs THEN Intents ELSE OwnIntents :
       LET m         == [Manifest EXCEPT !.require_containment = run[c].require]
           decision  == evaluate(m, run[c].demonstrated, intent)
           requested == append(run[c].ledger, Event("ToolRequested", n), << >>) IN
       Set(c, IF v0_1_effective_allow(decision, FALSE)
              THEN [run[c] EXCEPT !.pc = "dispatch", !.intent = {intent}, !.requests = n,
                      !.ledger = append(requested, Event("ToolAllowed", n), << >>)]
              ELSE [run[c] EXCEPT !.requests = n,
                      !.ledger = append(requested, Event("ToolDenied", n), << >>)])
  /\ UNCHANGED <<blobs, table, damage>>

\* canonical_authorized_path: the path must exist, must not be a link itself,
\* and must lead to a place under the real place of some root.
canonical_authorized_pathRaw(raw) ==
  IF raw \in DOMAIN Canonical /\ ~is_forbidden_host_resource(raw)
       /\ raw \notin Symlinks /\ path_allowed(raw, Manifest.roots)
  THEN {Canonical[raw]} ELSE {}

canonical_authorized_path(raw) ==
  LET roots == {Canonical[r] : r \in Manifest.roots \cap DOMAIN Canonical} IN
  IF raw \in DOMAIN Canonical /\ ~is_forbidden_host_resource(raw)
       /\ raw \notin Symlinks /\ path_allowed(Canonical[raw], roots)
  THEN {Canonical[raw]} ELSE {}

\* What the tool reads, if it is one the broker has and it does not fail.  The
\* listing, the search and the git head of a directory stay below it, because
\* links are skipped.  The http client connects to the host as it is written.
Touched(intent) ==
  LET raw == IF intent.path = {} THEN Cwd ELSE CHOOSE p \in intent.path : TRUE IN
  CASE intent.capability \in {"read_file", "collect_file", "list_tree", "search_text",
                              "git_inspect"} -> canonical_authorized_path(raw)
    [] intent.capability = "http_request"
         -> {<<"http", n.host, n.port>> : n \in intent.network}
    [] OTHER -> {}

\* dispatch: the output is put into the store, or an error ends the request.
Dispatch(c) ==
  /\ run[c].pc = "dispatch"
  /\ \/ \E intent \in run[c].intent : \E out \in Touched(intent) :
          Set(c, [run[c] EXCEPT !.pc = "put", !.intent = {}, !.todo = <<out, Nothing>>])
     \/ Set(c, [run[c] EXCEPT !.pc = "idle", !.intent = {}])
  /\ UNCHANGED <<blobs, table, damage>>

\* The engine's own request, whose body becomes an observation.
Observe(c) ==
  /\ c \in Campaigns /\ run[c].pc = "idle" /\ More(c)
  /\ \E body \in Bodies :
       Set(c, [run[c] EXCEPT !.pc = "put", !.todo = <<body>>, !.requests = @ + 1])
  /\ UNCHANGED <<blobs, table, damage>>

-----------------------------------------------------------------------------
(***************************************************************************)
(* ContentAddressedStore::put.                                             *)
(***************************************************************************)
Here(c) == Head(run[c].todo)

Stored1(c) == [run[c] EXCEPT !.todo = Tail(@), !.tmp = FALSE, !.made = Append(@, Here(c))]

\* path.exists: whoever wrote it.
PutExists(c) ==
  /\ run[c].pc = "put" /\ run[c].todo # << >> /\ ~run[c].tmp
  /\ Here(c) \in DOMAIN blobs /\ Set(c, Stored1(c))
  /\ UNCHANGED <<blobs, table, damage>>

PutCreateInPlace(c) ==
  /\ run[c].pc = "put" /\ run[c].todo # << >> /\ ~run[c].tmp
  /\ Here(c) \notin DOMAIN blobs /\ Set(c, [run[c] EXCEPT !.tmp = TRUE])
  /\ blobs' = [d \in DOMAIN blobs \cup {Here(c)} |->
                 IF d = Here(c) THEN Torn ELSE blobs[d]]
  /\ UNCHANGED <<table, damage>>

\* A temporary file of a name of its own is created and, if nothing fails,
\* written, synced and renamed; the rename replaces what another put there.
PutCreate(c) ==
  /\ run[c].pc = "put" /\ run[c].todo # << >> /\ ~run[c].tmp
  /\ Here(c) \notin DOMAIN blobs /\ Set(c, [run[c] EXCEPT !.tmp = TRUE])
  /\ UNCHANGED <<blobs, table, damage>>

PutRename(c) ==
  /\ run[c].pc = "put" /\ run[c].tmp /\ Set(c, Stored1(c))
  /\ blobs' = [d \in DOMAIN blobs \cup {Here(c)} |->
                 IF d = Here(c) THEN Here(c) ELSE blobs[d]]
  /\ UNCHANGED <<table, damage>>

PutFailsUnnoticed(c) ==
  /\ run[c].pc = "put" /\ run[c].todo # << >> /\ Set(c, Stored1(c))
  /\ UNCHANGED <<blobs, table, damage>>

\* An artifact over the limit, or an error of the disk: the request fails and
\* what was put before stays.
PutFails(c) ==
  /\ run[c].pc = "put" /\ run[c].todo # << >>
  /\ Set(c, [run[c] EXCEPT !.pc = "idle", !.todo = << >>, !.made = << >>,
                           !.tmp = FALSE])
  /\ UNCHANGED <<blobs, table, damage>>

\* Everything is stored: the receipt, or the record of the observation.
Finish(c) ==
  LET r    == run[c]
      done == [r EXCEPT !.pc = "idle", !.made = << >>] IN
  /\ r.pc = "put" /\ r.todo = << >>
  /\ \/ /\ Len(r.made) = 2
        /\ Set(c, [done EXCEPT !.receipts = @ \cup
                     {[request |-> r.requests, stdout |-> r.made[1], stderr |-> r.made[2]]}])
     \/ /\ Len(r.made) = 1
        /\ Set(c, [done EXCEPT !.ledger =
                     append(@, Event("ObservationRecorded", r.requests), r.made)])
  /\ UNCHANGED <<blobs, table, damage>>

-----------------------------------------------------------------------------
(***************************************************************************)
(* Store::persist_ledger_for, crashes and bad rows.                        *)
(***************************************************************************)
PersistAll(c) ==
  /\ c \in Campaigns /\ run[c].pc = "idle" /\ verify(run[c].ledger)
  /\ table' = [x \in Campaigns |-> IF x = c THEN RowsOf(run[c].ledger) ELSE [i \in {} |-> i]]
  /\ Set(c, [run[c] EXCEPT !.pc = "ended"]) /\ UNCHANGED <<blobs, damage>>

\* One transaction: delete the rows of this campaign, insert the entries.
Persist(c) ==
  /\ c \in Campaigns /\ run[c].pc = "idle" /\ verify(run[c].ledger)
  /\ table' = [table EXCEPT ![c] = RowsOf(run[c].ledger)]
  /\ Set(c, [run[c] EXCEPT !.pc = "ended"]) /\ UNCHANGED <<blobs, damage>>

\* The process is killed, or an error ends it before it persists anything.
Crash(c) ==
  /\ run[c].pc \notin {"ended", "crashed"}
  /\ Set(c, [run[c] EXCEPT !.pc = "crashed", !.tmp = FALSE, !.todo = << >>,
                           !.made = << >>, !.intent = {}])
  /\ UNCHANGED <<blobs, table, damage>>

Changed(row) ==
  {[row EXCEPT !.payload.record.kind = k] : k \in Kinds}
    \cup {[row EXCEPT !.payload.digests = << >>], [row EXCEPT !.payload.index = @ + 1],
          [row EXCEPT !.payload.previous_hash = GENESIS, !.previous_hash = GENESIS],
          [row EXCEPT !.payload.event_hash = GENESIS, !.event_hash = GENESIS],
          [row EXCEPT !.event_hash = GENESIS]}

\* Once the processes are gone, a row is lost, moved to another idx, or one of its values changes.
Damage(c) ==
  /\ \A p \in Processes : run[p].pc \in {"ended", "crashed"}
  /\ c \in Campaigns /\ damage < MaxDamage /\ damage' = damage + 1
  /\ \E i \in DOMAIN table[c] :
       \/ table' = [table EXCEPT ![c] = [j \in DOMAIN @ \ {i} |-> @[j]]]
       \/ \E k \in 0 .. (Cardinality(DOMAIN table[c]) + 1) \ DOMAIN table[c] :
            table' = [table EXCEPT ![c] =
                        [j \in (DOMAIN @ \ {i}) \cup {k} |-> IF j = k THEN @[i] ELSE @[j]]]
       \/ \E row \in Changed(table[c][i]) : table' = [table EXCEPT ![c][i] = row]
  /\ UNCHANGED <<blobs, run>>

Done == (\A c \in Processes : run[c].pc \in {"ended", "crashed"}) /\ UNCHANGED vars

Next ==
  \/ \E c \in Processes :
       \/ Execute(c) \/ Dispatch(c) \/ Observe(c) \/ PutExists(c) \/ PutCreate(c)
       \/ PutRename(c) \/ PutFails(c) \/ Finish(c)
       \/ Persist(c) \/ Crash(c) \/ Damage(c)
  \/ Done

Spec == Init /\ [][Next]_vars

-----------------------------------------------------------------------------
(***************************************************************************)
(* Properties.                                                             *)
(***************************************************************************)
\* What ToolBroker::dispatch reads is in scope: under the real place of an
\* authorised root, however the path was spelled, linked or left out, or at an
\* authorised address and port, or at an authorised name on a port that is
\* authorised for loopback; the containment that the manifest demands is there,
\* and the ledger ends with the ToolAllowed of this very request.
ReadsInScope ==
  \A p \in Processes :
    LET r == run[p] IN
    r.pc = "put" /\ Len(r.todo) = 2 =>
      /\ r.require => r.demonstrated
      /\ r.ledger[Len(r.ledger)].record = Event("ToolAllowed", r.requests)
      /\ \/ \E root \in Manifest.roots \cap DOMAIN Canonical :
              starts_with(Head(r.todo), Canonical[root])
         \/ \E e \in Manifest.endpoints :
              /\ e[1] \in Addresses \ NoHost
              /\ \/ Head(r.todo) = <<"http", e[1], e[2]>>
                 \/ /\ \E name \in Manifest.names \ Addresses :
                         Head(r.todo) = <<"http", name, e[2]>>
                    /\ e[1] = Loopback

\* Every digest that a receipt or a recorded observation names, in memory or in
\* a persisted row whose hash is right, is in the store with its whole content,
\* whichever process put it there first and whichever process died meanwhile.
Intact(e) == e.event_hash = entry_hash(e.previous_hash, e.record, e.digests)

Observations(entries) ==
  {e \in entries : Intact(e) /\ e.record.kind = "ObservationRecorded"}

Kept(d) == d \in DOMAIN blobs /\ blobs[d] = d

EvidenceIsThere ==
  /\ \A p \in Processes :
       /\ \A r \in run[p].receipts : Kept(r.stdout) /\ Kept(r.stderr)
       /\ \A e \in Observations(Range(run[p].ledger)) : \A d \in Range(e.digests) : Kept(d)
  /\ \A c \in Campaigns :
       \A e \in Observations({table[c][i].payload : i \in DOMAIN table[c]}) :
         \A d \in Range(e.digests) : Kept(d)

Beginnings(s) == {SubSeq(s, 1, n) : n \in 0 .. Len(s)}

\* A ledger that load_ledger_for returns, and so `evidence verify` calls ok, is
\* what its campaign recorded or the beginning of it: a changed, moved or lost
\* row is noticed, except that the last rows may be gone without a trace; and
\* load_ledger, asked without a campaign, answers only if one has rows.
VerifiedIsRecorded ==
  /\ \A c \in Campaigns : load_ledger_for(table[c]) \in Beginnings(run[c].ledger)
  /\ load_ledger(table) # << >> =>
       \E c \in Campaigns : /\ load_ledger(table) \in Beginnings(run[c].ledger)
                            /\ \A x \in Campaigns \ {c} : DOMAIN table[x] = {}

\* A campaign that ended has its whole ledger in the database, one that died
\* has none of it, and neither touches the rows of the other.
PersistedIsWhole ==
  damage = 0 => \A c \in Campaigns :
    load_ledger_for(table[c]) = IF run[c].pc = "ended" THEN run[c].ledger ELSE << >>

\* The store under concurrent writers and crashes is a write-once store.
Abstract == INSTANCE WriteOnce WITH contents <- blobs

WriteOnceSpec == Abstract!Spec
=============================================================================
