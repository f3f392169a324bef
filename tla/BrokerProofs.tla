----------------------------- MODULE BrokerProofs -----------------------------
(***************************************************************************)
(* Proofs about the broker, for any number of processes: its store is a    *)
(* write-once store, what a receipt, a ledger or a row names is in it, and *)
(* what a tool reads is in scope; and the ledger in the database is that   *)
(* in memory, or what is left of it is noticed to be less.                 *)
(***************************************************************************)
EXTENDS Broker, FiniteSetTheorems, WellFoundedInduction, TLAPS

IsSeq(s) == s \in Seq(Range(s))

Fields == {"pc", "require", "demonstrated", "intent", "todo", "tmp", "made", "ledger",
           "receipts", "requests"}

\* An entry whose hash was taken of an observation has its artifacts in D,
\* whatever became of the entry since.
EntryOK(e, D) ==
  /\ "event_hash" \in DOMAIN e
  /\ e.event_hash # GENESIS /\ e.event_hash[2].kind = "ObservationRecorded"
       => Range(e.event_hash[3]) \subseteq D

\* What a process holds names only what is in D.
Private(r, D) ==
  /\ Fields \subseteq DOMAIN r
  /\ IsSeq(r.made) /\ Range(r.made) \subseteq D
  /\ IsSeq(r.ledger) /\ \A e \in Range(r.ledger) : EntryOK(e, D)
  /\ \A x \in r.receipts : x.stdout \in D /\ x.stderr \in D

RowOK(row, D) == "payload" \in DOMAIN row /\ EntryOK(row.payload, D)

RowsOK(rows, D) == \A i \in DOMAIN rows : RowOK(rows[i], D)

IInv ==
  /\ \A d \in DOMAIN blobs : blobs[d] = d
  /\ DOMAIN run = Processes /\ \A p \in Processes : Private(run[p], DOMAIN blobs)
  /\ DOMAIN table = Campaigns /\ \A c \in Campaigns : RowsOK(table[c], DOMAIN blobs)

-----------------------------------------------------------------------------
\* A sequence with one element more.
LEMMA AppendSet ==
  ASSUME NEW s, IsSeq(s), NEW e
  PROVE  IsSeq(Append(s, e)) /\ Range(Append(s, e)) = Range(s) \cup {e}
<1> DEFINE S == Range(s) \cup {e}
           t == Append(s, e)
<1>1. s \in Seq(S) /\ e \in S
  BY DEF IsSeq
<1>2. /\ t \in Seq(S) /\ DOMAIN t = 1 .. Len(s) + 1 /\ DOMAIN s = 1 .. Len(s)
      /\ Len(s) \in Nat /\ t[Len(s) + 1] = e /\ \A i \in 1 .. Len(s) : t[i] = s[i]
  BY <1>1
<1>3. Range(t) = S
  BY <1>2 DEF Range
<1> QED BY <1>2, <1>3 DEF IsSeq

\* More in the store keeps what a process and the rows name in it.
LEMMA PrivateGrows ==
  ASSUME NEW r, NEW D, NEW E, D \subseteq E, Private(r, D)
  PROVE  Private(r, E)
BY DEF Private, EntryOK

LEMMA RowsGrow ==
  ASSUME NEW rows, NEW D, NEW E, D \subseteq E, RowsOK(rows, D)
  PROVE  RowsOK(rows, E)
BY DEF RowsOK, RowOK, EntryOK

\* EventLedger::append keeps the entries and adds one, with the hash of what
\* it was given.
LEMMA LedgerAppend ==
  ASSUME NEW s, IsSeq(s), NEW record, NEW ds, NEW D,
         \A e \in Range(s) : EntryOK(e, D),
         record.kind = "ObservationRecorded" => Range(ds) \subseteq D
  PROVE  /\ IsSeq(append(s, record, ds))
         /\ \A e \in Range(append(s, record, ds)) : EntryOK(e, D)
<1> DEFINE prev == IF s = << >> THEN GENESIS ELSE s[Len(s)].event_hash
           new  == [index |-> Len(s), previous_hash |-> prev,
                    event_hash |-> entry_hash(prev, record, ds),
                    payload_digest |-> payload_digest(record),
                    digests |-> ds, record |-> record]
<1>1. append(s, record, ds) = Append(s, new)
  BY DEF append
<1>2. EntryOK(new, D)
  <2>1. "event_hash" \in DOMAIN new /\ new.event_hash = <<prev, record, ds>>
    BY DEF entry_hash
  <2> QED BY <2>1 DEF EntryOK
<1> HIDE DEF new
<1> QED BY <1>1, <1>2, AppendSet

-----------------------------------------------------------------------------
\* A step that replaces what one process holds, and only adds to the store.
LEMMA OneProcess ==
  ASSUME IInv, NEW c \in Processes, NEW r, run' = [run EXCEPT ![c] = r],
         DOMAIN blobs \subseteq DOMAIN blobs', \A d \in DOMAIN blobs' : blobs'[d] = d,
         Private(r, DOMAIN blobs'), UNCHANGED table
  PROVE  IInv'
<1>1. DOMAIN run' = Processes /\ \A p \in Processes : run'[p] = IF p = c THEN r ELSE run[p]
  BY DEF IInv
<1>2. \A p \in Processes : Private(run'[p], DOMAIN blobs')
  BY <1>1, PrivateGrows DEF IInv
<1>3. \A x \in Campaigns : RowsOK(table'[x], DOMAIN blobs')
  BY RowsGrow DEF IInv
<1> QED BY <1>1, <1>2, <1>3 DEF IInv, Processes

-----------------------------------------------------------------------------
\* The steps that change the control of a process and nothing it names.
LEMMA ControlSteps ==
  ASSUME IInv, NEW c \in Processes,
         Dispatch(c) \/ Observe(c) \/ PutCreate(c) \/ PutFails(c) \/ Crash(c)
  PROVE  IInv'
<1>1. PICK r : /\ run' = [run EXCEPT ![c] = r] /\ DOMAIN r = DOMAIN run[c]
               /\ r.made \in {run[c].made, << >>}
               /\ r.ledger = run[c].ledger /\ r.receipts = run[c].receipts
  <2>1. Fields \subseteq DOMAIN run[c]
    BY DEF IInv, Private
  <2>2. CASE Dispatch(c)
    <3>1. PICK u : \/ run' = [run EXCEPT ![c] = [run[c] EXCEPT !.pc = "put", !.intent = {}, !.todo = u]]
                   \/ run' = [run EXCEPT ![c] = [run[c] EXCEPT !.pc = "idle", !.intent = {}]]
      BY Zenon, <2>2 DEF Dispatch, Set
    <3> DEFINE s == [run[c] EXCEPT !.pc = "put", !.intent = {}, !.todo = u]
               t == [run[c] EXCEPT !.pc = "idle", !.intent = {}]
    <3>2. /\ DOMAIN s = DOMAIN run[c] /\ s.made \in {run[c].made, << >>}
          /\ s.ledger = run[c].ledger /\ s.receipts = run[c].receipts
      BY <2>1 DEF Fields
    <3>3. /\ DOMAIN t = DOMAIN run[c] /\ t.made \in {run[c].made, << >>}
          /\ t.ledger = run[c].ledger /\ t.receipts = run[c].receipts
      BY <2>1 DEF Fields
    <3>4. run' = [run EXCEPT ![c] = s] \/ run' = [run EXCEPT ![c] = t]
      BY <3>1
    <3> HIDE DEF s, t
    <3> QED BY Zenon, <3>2, <3>3, <3>4
  <2>3. CASE Observe(c)
    <3>1. PICK u, n : run' = [run EXCEPT ![c] =
                        [run[c] EXCEPT !.pc = "put", !.todo = u, !.requests = n]]
      BY Zenon, <2>3 DEF Observe, Set
    <3> DEFINE s == [run[c] EXCEPT !.pc = "put", !.todo = u, !.requests = n]
    <3>2. run' = [run EXCEPT ![c] = s]
      BY <3>1
    <3>3. /\ DOMAIN s = DOMAIN run[c] /\ s.made \in {run[c].made, << >>}
          /\ s.ledger = run[c].ledger /\ s.receipts = run[c].receipts
      BY <2>1 DEF Fields
    <3> HIDE DEF s
    <3> QED BY Zenon, <3>2, <3>3
  <2>4. CASE PutCreate(c)
    <3> DEFINE s == [run[c] EXCEPT !.tmp = TRUE]
    <3>1. run' = [run EXCEPT ![c] = s]
      BY <2>4 DEF PutCreate, Set
    <3>2. /\ DOMAIN s = DOMAIN run[c] /\ s.made \in {run[c].made, << >>}
          /\ s.ledger = run[c].ledger /\ s.receipts = run[c].receipts
      BY <2>1 DEF Fields
    <3> HIDE DEF s
    <3> QED BY Zenon, <3>1, <3>2
  <2>5. CASE PutFails(c)
    <3> DEFINE s == [run[c] EXCEPT !.pc = "idle", !.todo = << >>, !.made = << >>, !.tmp = FALSE]
    <3>1. run' = [run EXCEPT ![c] = s]
      BY <2>5 DEF PutFails, Set
    <3>2. /\ DOMAIN s = DOMAIN run[c] /\ s.made \in {run[c].made, << >>}
          /\ s.ledger = run[c].ledger /\ s.receipts = run[c].receipts
      BY <2>1 DEF Fields
    <3> HIDE DEF s
    <3> QED BY Zenon, <3>1, <3>2
  <2>6. CASE Crash(c)
    <3> DEFINE s == [run[c] EXCEPT !.pc = "crashed", !.tmp = FALSE, !.todo = << >>,
                                   !.made = << >>, !.intent = {}]
    <3>1. run' = [run EXCEPT ![c] = s]
      BY <2>6 DEF Crash, Set
    <3>2. /\ DOMAIN s = DOMAIN run[c] /\ s.made \in {run[c].made, << >>}
          /\ s.ledger = run[c].ledger /\ s.receipts = run[c].receipts
      BY <2>1 DEF Fields
    <3> HIDE DEF s
    <3> QED BY Zenon, <3>1, <3>2
  <2> QED BY <2>2, <2>3, <2>4, <2>5, <2>6
<1>2. UNCHANGED <<blobs, table>>
  BY Zenon DEF Dispatch, Observe, PutCreate, PutFails, Crash
<1>3. IsSeq(<< >>) /\ Range(<< >>) = {}
  BY DEF IsSeq, Range
<1>4. Private(r, DOMAIN blobs)
  BY <1>1, <1>3 DEF IInv, Private
<1> QED BY <1>1, <1>2, <1>4, OneProcess DEF IInv

\* The request and the verdict add entries without artifacts.
LEMMA ExecuteStep ==
  ASSUME IInv, NEW c \in Processes, Execute(c)
  PROVE  IInv'
<1> DEFINE n    == run[c].requests + 1
           D    == DOMAIN blobs
           one  == append(run[c].ledger, Event("ToolRequested", n), << >>)
           yes  == append(one, Event("ToolAllowed", n), << >>)
           no   == append(one, Event("ToolDenied", n), << >>)
<1>1. Private(run[c], D)
  BY DEF IInv
<1>2. \A k \in {"ToolRequested", "ToolAllowed", "ToolDenied"} :
        Event(k, n).kind # "ObservationRecorded"
  BY DEF Event
<1>3. IsSeq(one) /\ \A e \in Range(one) : EntryOK(e, D)
  BY Zenon, <1>1, <1>2, LedgerAppend DEF Private
<1>4. IsSeq(yes) /\ \A e \in Range(yes) : EntryOK(e, D)
  <2> HIDE DEF one, n, D
  <2> QED BY Zenon, <1>2, <1>3, LedgerAppend
<1>5. IsSeq(no) /\ \A e \in Range(no) : EntryOK(e, D)
  <2> HIDE DEF one, n, D
  <2> QED BY Zenon, <1>2, <1>3, LedgerAppend
<1>6. PICK r : /\ run' = [run EXCEPT ![c] = r] /\ DOMAIN r = DOMAIN run[c]
               /\ r.made = run[c].made /\ r.receipts = run[c].receipts
               /\ r.ledger \in {yes, no}
  <2>1. Fields \subseteq DOMAIN run[c]
    BY <1>1 DEF Private
  <2>2. PICK intent :
          run' = [run EXCEPT ![c] =
            IF v0_1_effective_allow(evaluate([Manifest EXCEPT !.require_containment =
                 run[c].require], run[c].demonstrated, intent), FALSE)
            THEN [run[c] EXCEPT !.pc = "dispatch", !.intent = {intent}, !.requests = n,
                                !.ledger = yes]
            ELSE [run[c] EXCEPT !.requests = n, !.ledger = no]]
    BY Zenon DEF Execute, Set
  <2> HIDE DEF n, yes, no
  <2> DEFINE s == [run[c] EXCEPT !.pc = "dispatch", !.intent = {intent}, !.requests = n,
                                 !.ledger = yes]
             t == [run[c] EXCEPT !.requests = n, !.ledger = no]
  <2>3. /\ DOMAIN s = DOMAIN run[c] /\ s.made = run[c].made
        /\ s.receipts = run[c].receipts /\ s.ledger = yes
    BY <2>1 DEF Fields
  <2>4. /\ DOMAIN t = DOMAIN run[c] /\ t.made = run[c].made
        /\ t.receipts = run[c].receipts /\ t.ledger = no
    BY <2>1 DEF Fields
  <2>5. run' = [run EXCEPT ![c] = s] \/ run' = [run EXCEPT ![c] = t]
    BY Zenon, <2>2
  <2> HIDE DEF s, t
  <2> QED BY <2>3, <2>4, <2>5
<1>7. Private(r, D)
  <2> HIDE DEF yes, no, D
  <2> QED BY <1>1, <1>4, <1>5, <1>6 DEF Private
<1>8. UNCHANGED <<blobs, table>>
  BY DEF Execute
<1> QED BY <1>6, <1>7, <1>8, OneProcess DEF IInv

\* A put ends with the digest in the store, by this process or another.
LEMMA PutSteps ==
  ASSUME IInv, NEW c \in Processes, PutExists(c) \/ PutRename(c)
  PROVE  IInv'
<1> DEFINE d == Here(c)
           r == Stored1(c)
<1>1. Private(run[c], DOMAIN blobs)
  BY DEF IInv
<1>2. /\ DOMAIN blobs \subseteq DOMAIN blobs' /\ d \in DOMAIN blobs'
      /\ \A x \in DOMAIN blobs' : blobs'[x] = x
  BY DEF PutExists, PutRename, IInv
<1>3. run' = [run EXCEPT ![c] = r] /\ UNCHANGED table
  BY DEF PutExists, PutRename, Set
<1>4. /\ DOMAIN r = DOMAIN run[c] /\ r.made = Append(run[c].made, d)
      /\ r.ledger = run[c].ledger /\ r.receipts = run[c].receipts
  BY <1>1 DEF Private, Fields, Stored1
<1>5. Private(run[c], DOMAIN blobs')
  BY <1>1, <1>2, PrivateGrows
<1>6. IsSeq(r.made) /\ Range(r.made) \subseteq DOMAIN blobs'
  <2> HIDE DEF d, r
  <2> QED BY <1>2, <1>4, <1>5, AppendSet DEF Private
<1>7. Private(r, DOMAIN blobs')
  <2> HIDE DEF d, r
  <2> QED BY <1>4, <1>5, <1>6 DEF Private
<1> QED BY Zenon, <1>2, <1>3, <1>7, OneProcess

\* The receipt and the observation name what was just put.
LEMMA FinishStep ==
  ASSUME IInv, NEW c \in Processes, Finish(c)
  PROVE  IInv'
<1> DEFINE o == run[c]
           D == DOMAIN blobs
<1>1. Private(o, D) /\ Fields \subseteq DOMAIN o
  BY DEF IInv, Private
<1>2. UNCHANGED <<blobs, table>>
  BY DEF Finish
<1>3. CASE Len(o.made) = 2
  <2> DEFINE x == [request |-> o.requests, stdout |-> o.made[1], stderr |-> o.made[2]]
             r == [o EXCEPT !.pc = "idle", !.made = << >>, !.receipts = @ \cup {x}]
  <2>1. o.made[1] \in D /\ o.made[2] \in D
    <3>1. 1 \in DOMAIN o.made /\ 2 \in DOMAIN o.made
      BY <1>1, <1>3 DEF Private, IsSeq
    <3> QED BY <1>1, <3>1 DEF Private, Range
  <2>2. run' = [run EXCEPT ![c] = r]
    BY <1>3 DEF Finish, Set
  <2>3. /\ DOMAIN r = DOMAIN o /\ r.made = << >> /\ r.ledger = o.ledger
        /\ r.receipts = o.receipts \cup {x}
    BY <1>1 DEF Fields
  <2>4. x.stdout \in D /\ x.stderr \in D
    BY <2>1
  <2>5. IsSeq(<< >>) /\ Range(<< >>) = {}
    BY DEF IsSeq, Range
  <2> HIDE DEF x, r, o, D
  <2>6. Private(r, D)
    BY <1>1, <2>3, <2>4, <2>5 DEF Private
  <2> QED BY <1>2, <2>2, <2>6, OneProcess DEF IInv, D
<1>4. CASE Len(o.made) = 1
  <2> DEFINE new == append(o.ledger, Event("ObservationRecorded", o.requests), o.made)
             r   == [o EXCEPT !.pc = "idle", !.made = << >>, !.ledger = new]
  <2>1. IsSeq(new) /\ \A e \in Range(new) : EntryOK(e, D)
    <3> HIDE DEF o, D
    <3> QED BY Zenon, <1>1, LedgerAppend DEF Private
  <2>2. run' = [run EXCEPT ![c] = r]
    BY <1>4 DEF Finish, Set
  <2> HIDE DEF new
  <2>3. /\ DOMAIN r = DOMAIN o /\ r.made = << >> /\ r.ledger = new
        /\ r.receipts = o.receipts
    BY <1>1 DEF Fields
  <2>4. IsSeq(<< >>) /\ Range(<< >>) = {}
    BY DEF IsSeq, Range
  <2> HIDE DEF r, o, D
  <2>5. Private(r, D)
    BY <1>1, <2>1, <2>3, <2>4 DEF Private
  <2> QED BY <1>2, <2>2, <2>5, OneProcess DEF IInv, D
<1> QED BY <1>3, <1>4 DEF Finish

\* persist_ledger_for writes the rows of a ledger that verifies.
LEMMA PersistStep ==
  ASSUME IInv, NEW c \in Processes, Persist(c)
  PROVE  IInv'
<1> DEFINE o == run[c]
           D == DOMAIN blobs
           r == [o EXCEPT !.pc = "ended"]
<1>1. Private(o, D) /\ Fields \subseteq DOMAIN o
  BY DEF IInv, Private
<1>2. /\ c \in Campaigns /\ verify(o.ledger) /\ UNCHANGED blobs
      /\ run' = [run EXCEPT ![c] = r] /\ table' = [table EXCEPT ![c] = RowsOf(o.ledger)]
  BY DEF Persist, Set
<1>3. RowsOK(RowsOf(o.ledger), D)
  <2> HIDE DEF o, D
  <2> SUFFICES ASSUME NEW i \in DOMAIN RowsOf(o.ledger)
               PROVE  RowOK(RowsOf(o.ledger)[i], D)
    BY DEF RowsOK
  <2>1. PICK k \in DOMAIN o.ledger : i = o.ledger[k].index
    BY DEF RowsOf, Range
  <2>2. i + 1 = k
    BY <1>1, <1>2, <2>1 DEF verify, Private, IsSeq
  <2>3. RowsOf(o.ledger)[i] = Row(o.ledger[k])
    BY <2>2 DEF RowsOf
  <2>4. EntryOK(o.ledger[k], D)
    BY <1>1, <2>1 DEF Private, Range
  <2> QED BY <2>3, <2>4 DEF Row, RowOK
<1>4. /\ DOMAIN r = DOMAIN o /\ r.made = o.made /\ r.ledger = o.ledger
      /\ r.receipts = o.receipts
  BY <1>1 DEF Fields
<1>5. Private(r, D)
  <2> HIDE DEF r, o, D
  <2> QED BY <1>1, <1>4 DEF Private
<1>6. DOMAIN run' = Processes /\ \A p \in Processes : Private(run'[p], D)
  <2> HIDE DEF r
  <2> QED BY <1>2, <1>5 DEF IInv
<1>7. DOMAIN table' = Campaigns /\ \A x \in Campaigns : RowsOK(table'[x], D)
  BY <1>2, <1>3 DEF IInv
<1> QED BY <1>2, <1>6, <1>7 DEF IInv, Processes

\* A bad row has the entry hash that was written into it, or none, or is gone.
LEMMA DamageStep ==
  ASSUME IInv, NEW c \in Processes, Damage(c)
  PROVE  IInv'
<1> DEFINE D    == DOMAIN blobs
           rows == table[c]
<1>1. c \in Campaigns /\ UNCHANGED <<blobs, run>> /\ RowsOK(rows, D)
  BY DEF Damage, IInv
<1>2. PICK new : table' = [table EXCEPT ![c] = new] /\ RowsOK(new, D)
  <2>1. PICK i \in DOMAIN table[c] :
          \/ table' = [table EXCEPT ![c] = [j \in DOMAIN @ \ {i} |-> @[j]]]
          \/ \E k \in 0 .. (Cardinality(DOMAIN table[c]) + 1) \ DOMAIN table[c] :
               table' = [table EXCEPT ![c] =
                 [j \in (DOMAIN @ \ {i}) \cup {k} |-> IF j = k THEN @[i] ELSE @[j]]]
          \/ \E row \in Changed(table[c][i]) : table' = [table EXCEPT ![c][i] = row]
    BY Zenon DEF Damage
  <2>2. CASE table' = [table EXCEPT ![c] = [j \in DOMAIN rows \ {i} |-> rows[j]]]
    <3> DEFINE s == [j \in DOMAIN rows \ {i} |-> rows[j]]
    <3>1. RowsOK(s, D)
      BY <1>1 DEF RowsOK
    <3> HIDE DEF s
    <3> QED BY <2>2, <3>1 DEF s
  <2>3. ASSUME NEW k, table' = [table EXCEPT ![c] =
          [j \in (DOMAIN rows \ {i}) \cup {k} |-> IF j = k THEN rows[i] ELSE rows[j]]]
        PROVE  \E new : table' = [table EXCEPT ![c] = new] /\ RowsOK(new, D)
    <3> DEFINE s == [j \in (DOMAIN rows \ {i}) \cup {k} |-> IF j = k THEN rows[i] ELSE rows[j]]
    <3>1. RowsOK(s, D)
      BY <1>1 DEF RowsOK
    <3>2. table' = [table EXCEPT ![c] = s]
      BY <2>3
    <3> HIDE DEF s
    <3> QED BY Zenon, <3>1, <3>2
  <2>4. ASSUME NEW row \in Changed(rows[i]),
               table' = [table EXCEPT ![c][i] = row]
        PROVE  \E new : table' = [table EXCEPT ![c] = new] /\ RowsOK(new, D)
    <3> DEFINE s == [rows EXCEPT ![i] = row]
    <3>1. RowOK(rows[i], D)
      BY <1>1 DEF RowsOK
    <3>2. /\ "payload" \in DOMAIN row /\ "event_hash" \in DOMAIN row.payload
          /\ row.payload.event_hash \in {GENESIS, rows[i].payload.event_hash}
      BY Zenon, <3>1 DEF Changed, RowOK, EntryOK
    <3>3. RowOK(row, D)
      BY <3>1, <3>2 DEF RowOK, EntryOK
    <3>4. RowsOK(s, D)
      BY <1>1, <3>3 DEF RowsOK
    <3>5. table' = [table EXCEPT ![c] = s]
      BY <2>4
    <3> HIDE DEF s
    <3> QED BY Zenon, <3>4, <3>5
  <2> QED BY Zenon, <2>1, <2>2, <2>3, <2>4
<1>3. DOMAIN table' = Campaigns /\ \A x \in Campaigns : RowsOK(table'[x], D)
  BY <1>1, <1>2 DEF IInv
<1> QED BY <1>1, <1>3 DEF IInv, Processes

-----------------------------------------------------------------------------
LEMMA InitOK == Init => IInv
<1> SUFFICES ASSUME Init PROVE IInv
  OBVIOUS
<1>1. IsSeq(<< >>) /\ Range(<< >>) = {}
  BY DEF IsSeq, Range
<1>2. ASSUME NEW p PROVE IsSeq(Ledger0(p)) /\ \A e \in Range(Ledger0(p)) : EntryOK(e, {})
  <2>1. Event("TargetSnapshotted", 0).kind # "ObservationRecorded"
    BY DEF Event
  <2> QED BY Zenon, <1>1, <2>1, LedgerAppend DEF Ledger0
<1>3. ASSUME NEW p \in Processes PROVE Private(run[p], {})
  <2>1. PICK b \in BOOLEAN : run[p] =
          [pc |-> "idle", require |-> b, demonstrated |-> b /\ p \in Campaigns,
           intent |-> {}, todo |-> << >>, tmp |-> FALSE, made |-> << >>,
           ledger |-> Ledger0(p), receipts |-> {}, requests |-> 0]
    BY DEF Init, Start
  <2>2. /\ Fields \subseteq DOMAIN run[p] /\ run[p].made = << >>
        /\ run[p].ledger = Ledger0(p) /\ run[p].receipts = {}
    BY <2>1 DEF Fields
  <2> QED BY <1>1, <1>2, <2>2 DEF Private
<1>4. DOMAIN blobs = {} /\ DOMAIN table = Campaigns /\ DOMAIN run = Processes
  BY DEF Init
<1>5. \A c \in Campaigns : RowsOK(table[c], {})
  BY DEF Init, RowsOK
<1> QED BY <1>3, <1>4, <1>5 DEF IInv

LEMMA NextOK == IInv /\ [Next]_vars => IInv'
<1> SUFFICES ASSUME IInv, [Next]_vars PROVE IInv'
  OBVIOUS
<1>1. CASE UNCHANGED vars
  BY <1>1 DEF vars, IInv, Processes
<1>2. CASE Done
  BY <1>2 DEF Done, vars, IInv, Processes
<1>3. ASSUME NEW c \in Processes,
             \/ Execute(c) \/ Dispatch(c) \/ Observe(c) \/ PutExists(c) \/ PutCreate(c)
             \/ PutRename(c) \/ PutFails(c) \/ Finish(c)
             \/ Persist(c) \/ Crash(c) \/ Damage(c)
      PROVE  IInv'
  BY <1>3, ControlSteps, ExecuteStep, PutSteps, FinishStep, PersistStep, DamageStep
<1> QED BY <1>1, <1>2, <1>3 DEF Next

\* For any processes, intents, target and amount of damage, what a receipt, a
\* ledger or an intact row names is in the content-addressed store: put is
\* called before the digest is used, and renames a whole file into place.
THEOREM EvidenceStays == Spec => []EvidenceIsThere
<1>1. IInv => EvidenceIsThere
  <2> SUFFICES ASSUME IInv PROVE EvidenceIsThere
    OBVIOUS
  <2>1. \A d \in DOMAIN blobs : Kept(d)
    BY DEF IInv, Kept
  <2>2. ASSUME NEW S, \A e \in S : EntryOK(e, DOMAIN blobs), NEW e \in Observations(S),
               NEW d \in Range(e.digests)
        PROVE  Kept(d)
    <3>1. EntryOK(e, DOMAIN blobs) /\ e.event_hash = <<e.previous_hash, e.record, e.digests>>
      BY <2>2 DEF Observations, Intact, entry_hash
    <3>2. e.event_hash[2] = e.record /\ e.event_hash[3] = e.digests
      BY <3>1
    <3>3. e.event_hash # GENESIS
      BY <3>1 DEF GENESIS
    <3> QED BY <2>1, <2>2, <3>1, <3>2, <3>3 DEF EntryOK, Observations
  <2>3. \A p \in Processes : \A e \in Observations(Range(run[p].ledger)) :
          \A d \in Range(e.digests) : Kept(d)
    BY <2>2 DEF IInv, Private
  <2>4. \A c \in Campaigns :
          \A e \in Observations({table[c][i].payload : i \in DOMAIN table[c]}) :
            \A d \in Range(e.digests) : Kept(d)
    BY <2>2 DEF IInv, RowsOK, RowOK
  <2>5. \A p \in Processes : \A r \in run[p].receipts : Kept(r.stdout) /\ Kept(r.stderr)
    BY <2>1 DEF IInv, Private
  <2> QED BY <2>3, <2>4, <2>5 DEF EvidenceIsThere
<1> QED BY <1>1, InitOK, NextOK, PTL DEF Spec

\* ContentAddressedStore::put by any number of processes that race and die is
\* a write-once store: a digest has no content or its own, from then on.
THEOREM StoreIsWriteOnce == Spec => WriteOnceSpec
<1>1. Init => Abstract!Init
  BY DEF Init, Abstract!Init
<1>2. [Next]_vars => [\E d \in DOMAIN blobs' : Abstract!Put(d)]_blobs
  <2> SUFFICES ASSUME [Next]_vars, blobs' # blobs
               PROVE  \E d \in DOMAIN blobs' : Abstract!Put(d)
    OBVIOUS
  <2>1. PICK c \in Processes : PutRename(c)
    BY Zenon DEF Next, Done, vars, Execute, Dispatch, Observe, PutExists, PutCreate, PutFails,
           Finish, Persist, Crash, Damage
  <2>2. Here(c) \in DOMAIN blobs' /\ Abstract!Put(Here(c))
    BY <2>1 DEF PutRename, Abstract!Put
  <2> QED BY <2>2
<1> QED BY <1>1, <1>2, PTL DEF Spec, WriteOnceSpec, Abstract!Spec

-----------------------------------------------------------------------------
(***************************************************************************)
(* The scope of the manifest.                                              *)
(***************************************************************************)
\* What is in the scope of the manifest, as ReadsInScope says it.
InScope(out) ==
  \/ \E root \in Manifest.roots \cap DOMAIN Canonical : starts_with(out, Canonical[root])
  \/ \E e \in Manifest.endpoints :
       /\ e[1] \in Addresses \ NoHost
       /\ \/ out = <<"http", e[1], e[2]>>
          \/ /\ \E name \in Manifest.names \ Addresses : out = <<"http", name, e[2]>>
             /\ e[1] = Loopback

\* The request at hand is allowed, and the last entry says so.
Granted(r) ==
  /\ r.require => r.demonstrated
  /\ r.ledger[Len(r.ledger)].record = Event("ToolAllowed", r.requests)

\* What a process may be about to read, or has read and is about to store.
Scoped(r) ==
  /\ r.pc = "dispatch" =>
       Granted(r) /\ \A i \in r.intent : \A net \in i.network : DestinationAllowed(Manifest, net)
  /\ r.pc = "put" => \/ r.todo = << >> \/ \E x : r.todo = <<x>>
                     \/ Granted(r) /\ \E x : r.todo = <<x, Nothing>> /\ InScope(x)
  /\ r.tmp => r.pc = "put" /\ r.todo # << >>

ScopeInv == \A p \in Processes : Scoped(run[p])

-----------------------------------------------------------------------------
\* EventLedger::append puts what it was given at the end.
LEMMA LedgerSeq ==
  ASSUME NEW s, IsSeq(s), NEW record, NEW ds
  PROVE  /\ IsSeq(append(s, record, ds))
         /\ append(s, record, ds)[Len(append(s, record, ds))].record = record
<1> DEFINE prev == IF s = << >> THEN GENESIS ELSE s[Len(s)].event_hash
           new  == [index |-> Len(s), previous_hash |-> prev,
                    event_hash |-> entry_hash(prev, record, ds),
                    payload_digest |-> payload_digest(record),
                    digests |-> ds, record |-> record]
           S    == Range(s) \cup {new}
<1>1. append(s, record, ds) = Append(s, new) /\ new.record = record
  BY DEF append
<1>2. s \in Seq(S) /\ new \in S
  BY DEF IsSeq
<1> HIDE DEF new, S
<1>3. Append(s, new)[Len(Append(s, new))] = new
  BY <1>2
<1> QED BY <1>1, <1>3, AppendSet

\* A nonempty set of natural numbers has a least element.
LEMMA Least ==
  ASSUME NEW S \in SUBSET Nat, S # {}
  PROVE  \E m \in S : \A n \in S : m <= n
<1> DEFINE R == OpToRel(<, Nat)
<1>1. IsWellFoundedOn(R, Nat)
  BY Zenon, NatLessThanWellFounded
<1>2. \A x, y \in Nat : y < x => <<y, x>> \in R
  BY DEF OpToRel
<1> HIDE DEF R
<1>3. PICK x \in S : \A y \in S : ~ (<<y, x>> \in R)
  BY Zenon, <1>1, WFMin
<1>4. ASSUME NEW y \in S PROVE x <= y
  <2>1. ~ (y < x)
    BY Zenon, <1>2, <1>3
  <2> QED BY <2>1
<1> QED BY <1>4

\* Induction, on a set of numbers.
LEMMA Ind ==
  ASSUME NEW S, 0 \in S, \A n \in Nat : n \in S => n + 1 \in S
  PROVE  Nat \subseteq S
<1> SUFFICES ASSUME Nat \ S # {} PROVE FALSE
  OBVIOUS
<1>1. PICK m \in Nat \ S : \A n \in Nat \ S : m <= n
  BY Zenon, Least
<1>2. m # 0 /\ m - 1 \in Nat
  BY <1>1
<1>3. m - 1 \in S
  BY <1>1, <1>2
<1> QED BY <1>1, <1>2, <1>3

\* normalize_path drops the leading part of a path that is absolute and has no
\* other empty part, "." or Parent.
LEMMA NormalForm ==
  ASSUME NEW path \in Seq(STRING), path # << >>, path[1] = Absolute,
         \A i \in 2 .. Len(path) : path[i] \notin Ignored \cup {Parent}
  PROVE  normalize_path(path) = {Tail(path)}
<1> DEFINE L == Len(path)
           Step(f, n) == IF n = 0 THEN << >>
                         ELSE IF path[n] \in Ignored THEN f[n - 1] ELSE Append(f[n - 1], path[n])
           out[n \in 0 .. Len(path)] ==
             IF n = 0 THEN << >>
             ELSE IF path[n] \in Ignored THEN out[n - 1] ELSE Append(out[n - 1], path[n])
           g == [n \in 0 .. L |-> IF n = 0 THEN << >> ELSE SubSeq(path, 2, n)]
<1> HIDE DEF Step, out, g
<1>0. path[1] \in Ignored /\ Absolute # Parent
  <2>1. Absolute \in Ignored /\ Absolute # Parent
    BY Zenon DEF Absolute, Ignored, Parent
  <2> QED BY <2>1
<1>1. L \in Nat /\ L # 0 /\ 1 \in 0 .. L /\ 0 \in 0 .. L
  <2>1. L \in Nat /\ L # 0
    OBVIOUS
  <2> QED BY <2>1
<1> HIDE DEF L
<1>2. ASSUME NEW n \in 0 .. L
      PROVE  g[n] = Step(g, n)
  <2>1. n \in Nat /\ n <= L
    BY <1>1
  <2>2. CASE n = 0
    BY <2>2 DEF g, Step
  <2>3. CASE n = 1
    <3>1. SubSeq(path, 2, 1) = << >>
      OBVIOUS
    <3>2. g[0] = << >> /\ g[1] = << >>
      BY <1>1, <3>1 DEF g
    <3>3. Step(g, 1) = g[0]
      <4>1. 1 # 0 /\ 1 - 1 = 0
        OBVIOUS
      <4> QED BY <1>0, <4>1 DEF Step
    <3> QED BY <2>3, <3>2, <3>3
  <2>4. CASE n # 0 /\ n # 1
    <3>1. n \in 2 .. L /\ n - 1 \in 0 .. L /\ n - 1 # 0 /\ n # 0
      BY <1>1, <2>1, <2>4
    <3>2. path[n] \notin Ignored
      BY <3>1 DEF L
    <3>3. g[n] = SubSeq(path, 2, n) /\ g[n - 1] = SubSeq(path, 2, n - 1)
      BY <3>1 DEF g
    <3>4. SubSeq(path, 2, n) = Append(SubSeq(path, 2, n - 1), path[n])
      BY <1>1, <3>1 DEF L
    <3> QED BY <3>1, <3>2, <3>3, <3>4 DEF Step
  <2> QED BY <2>2, <2>3, <2>4
<1>3. g = [n \in 0 .. L |-> Step(g, n)]
  BY <1>2 DEF g
<1>4. out = [n \in 0 .. L |-> Step(out, n)]
  BY Zenon, <1>3 DEF out, Step, L
<1>5. \A n \in 0 .. L : out[n] = g[n]
  <2> DEFINE S == {n \in Nat : n <= L => out[n] = g[n]}
  <2>1. 0 \in S
    <3>1. out[0] = << >> /\ g[0] = << >>
      BY <1>1, <1>3, <1>4 DEF Step
    <3> QED BY <3>1
  <2>2. ASSUME NEW n \in Nat, n \in S PROVE n + 1 \in S
    <3> SUFFICES ASSUME n + 1 <= L PROVE out[n + 1] = g[n + 1]
      OBVIOUS
    <3>1. n + 1 \in 0 .. L /\ (n + 1) - 1 = n /\ out[n] = g[n] /\ n + 1 # 0
      BY <1>1, <2>2
    <3>2. out[n + 1] = Step(out, n + 1)
      BY Zenon, <1>4, <3>1
    <3>3. g[n + 1] = Step(g, n + 1)
      BY <1>2, <3>1
    <3>4. Step(out, n + 1) = Step(g, n + 1)
      BY <3>1 DEF Step
    <3> QED BY <3>2, <3>3, <3>4
  <2> HIDE DEF S
  <2>3. Nat \subseteq S
    BY <2>1, <2>2, Ind
  <2> QED BY <1>1, <2>3 DEF S
<1>6. out[L] = Tail(path)
  <2>1. g[L] = SubSeq(path, 2, L)
    BY <1>1 DEF g
  <2>2. SubSeq(path, 2, L) = Tail(path)
    BY <1>1 DEF L
  <2> QED BY <1>1, <1>5, <2>1, <2>2
<1>7. ~ (Parent \in Range(path))
  <2>1. ASSUME NEW i \in 1 .. L PROVE path[i] # Parent
    <3>1. i = 1 \/ i \in 2 .. L
      BY <1>1
    <3> QED BY <1>0, <3>1 DEF L
  <2> QED BY <2>1 DEF Range, L
<1>8. normalize_path(path) = IF Parent \in Range(path) THEN {} ELSE {out[L]}
  BY DEF normalize_path, out, L
<1> QED BY <1>6, <1>7, <1>8

\* What comes after the same first part.
LEMMA PrefixOfTails ==
  ASSUME NEW s \in Seq(STRING), NEW t \in Seq(STRING), s # << >>, t # << >>, s[1] = t[1],
         starts_with(Tail(t), Tail(s))
  PROVE  starts_with(t, s)
<1>1. /\ Len(s) \in Nat /\ Len(t) \in Nat /\ Len(s) # 0 /\ Len(t) # 0
      /\ Len(Tail(s)) = Len(s) - 1 /\ Len(Tail(t)) = Len(t) - 1
      /\ Tail(s) \in Seq(STRING) /\ Tail(t) \in Seq(STRING)
  OBVIOUS
<1>2. Len(s) <= Len(t)
  BY <1>1 DEF starts_with
<1>3. Tail(s) = SubSeq(Tail(t), 1, Len(s) - 1)
  BY <1>1 DEF starts_with
<1>4. ASSUME NEW i \in 1 .. Len(s) PROVE s[i] = t[i]
  <2>1. CASE i = 1
    BY <2>1
  <2>2. CASE i # 1
    <3>1. i - 1 \in 1 .. Len(s) - 1 /\ i \in Nat
      BY <1>1, <2>2
    <3>2. SubSeq(Tail(t), 1, Len(s) - 1)[i - 1] = Tail(t)[i - 1]
      BY <1>1, <1>2, <3>1
    <3>3. Tail(s)[i - 1] = s[i] /\ Tail(t)[i - 1] = t[i]
      BY <1>1, <1>2, <3>1
    <3> QED BY Zenon, <1>3, <3>2, <3>3
  <2> QED BY <2>1, <2>2
<1>5. s = SubSeq(t, 1, Len(s))
  BY <1>1, <1>2, <1>4
<1> QED BY <1>2, <1>5 DEF starts_with

\* canonical_authorized_path returns a place under the real place of a root.
LEMMA PathInScope ==
  ASSUME NEW raw, NEW out \in canonical_authorized_path(raw)
  PROVE  InScope(out)
<1> DEFINE roots == {Canonical[r] : r \in Manifest.roots \cap DOMAIN Canonical}
<1>1. raw \in DOMAIN Canonical /\ out = Canonical[raw] /\ path_allowed(out, roots)
  BY DEF canonical_authorized_path
<1>2. PICK root \in Manifest.roots \cap DOMAIN Canonical :
        \E p \in normalize_path(out) : \E r \in normalize_path(Canonical[root]) : starts_with(p, r)
  BY <1>1 DEF path_allowed
<1>3. ASSUME NEW q \in DOMAIN Canonical
      PROVE  /\ Canonical[q] \in Seq(STRING) /\ Canonical[q] # << >>
             /\ Canonical[q][1] = Absolute /\ normalize_path(Canonical[q]) = {Tail(Canonical[q])}
  BY CanonicalAssumption, NormalForm
<1>4. starts_with(Tail(out), Tail(Canonical[root]))
  BY Zenon, <1>1, <1>2, <1>3
<1>5. starts_with(out, Canonical[root])
  BY Zenon, <1>1, <1>2, <1>3, <1>4, PrefixOfTails
<1> QED BY <1>2, <1>5 DEF InScope

\* The http client goes where evaluate let it go.
LEMMA DestinationInScope ==
  ASSUME NEW net, DestinationAllowed(Manifest, net)
  PROVE  InScope(<<"http", net.host, net.port>>)
<1> DEFINE e == <<net.host, net.port>>
           l == <<Loopback, net.port>>
<1>1. e[1] = net.host /\ e[2] = net.port /\ l[1] = Loopback /\ l[2] = net.port
  OBVIOUS
<1>2. CASE net.host \in Addresses
  <2>1. e \in Manifest.endpoints /\ net.host \in Addresses \ NoHost
    BY <1>2 DEF DestinationAllowed, network_allowed
  <2> HIDE DEF e
  <2> QED BY <1>1, <2>1 DEF InScope
<1>3. CASE net.host \notin Addresses
  <2>1. /\ net.host \in Manifest.names \ Addresses /\ l \in Manifest.endpoints
        /\ Loopback \in Addresses \ NoHost
    BY <1>3 DEF DestinationAllowed, network_allowed
  <2> HIDE DEF l
  <2> QED BY <1>1, <2>1 DEF InScope
<1> QED BY <1>2, <1>3

LEMMA TouchedInScope ==
  ASSUME NEW intent, \A net \in intent.network : DestinationAllowed(Manifest, net),
         NEW out \in Touched(intent)
  PROVE  InScope(out)
<1> DEFINE raw == IF intent.path = {} THEN Cwd ELSE CHOOSE p \in intent.path : TRUE
<1>1. CASE out \in canonical_authorized_path(raw)
  <2> HIDE DEF raw
  <2> QED BY <1>1, PathInScope
<1>2. CASE \E n \in intent.network : out = <<"http", n.host, n.port>>
  BY <1>2, DestinationInScope
<1>3. \/ out \in canonical_authorized_path(raw)
      \/ \E n \in intent.network : out = <<"http", n.host, n.port>>
  <2> HIDE DEF raw
  <2>1. \/ out \in canonical_authorized_path(raw)
        \/ out \in {<<"http", n.host, n.port>> : n \in intent.network}
        \/ out \in {}
    BY DEF Touched, raw
  <2> QED BY <2>1
<1> QED BY <1>1, <1>2, <1>3

\* An effective allow is none of the reasons to deny.
LEMMA AllowedMeans ==
  ASSUME NEW b, NEW d, NEW intent,
         v0_1_effective_allow(evaluate([Manifest EXCEPT !.require_containment = b], d, intent),
                              FALSE)
  PROVE  (b => d) /\ \A net \in intent.network : DestinationAllowed(Manifest, net)
<1> DEFINE m == [Manifest EXCEPT !.require_containment = b]
<1>1. m.require_containment = b /\ m.names = Manifest.names /\ m.endpoints = Manifest.endpoints
  BY ManifestAssumption
<1> HIDE DEF m
<1>2. ~ Denied(m, d, intent)
  BY DEF v0_1_effective_allow, evaluate, m
<1>3. ~ (m.require_containment /\ ~ d) /\ \A net \in intent.network : DestinationAllowed(m, net)
  BY <1>2, Zenon DEF Denied
<1>4. \A net \in intent.network : DestinationAllowed(Manifest, net)
  BY <1>1, <1>3 DEF DestinationAllowed
<1>5. b => d
  BY <1>1, <1>3, Zenon
<1> QED BY <1>4, <1>5

-----------------------------------------------------------------------------
LEMMA ScopeOfOne ==
  ASSUME IInv, ScopeInv, NEW c \in Processes, NEW r, run' = [run EXCEPT ![c] = r], Scoped(r)
  PROVE  ScopeInv'
<1>1. \A p \in Processes : run'[p] = IF p = c THEN r ELSE run[p]
  BY DEF IInv
<1> QED BY <1>1 DEF ScopeInv, Processes

\* The verdict is in the ledger before the tool is dispatched.
LEMMA ScopeExecute ==
  ASSUME IInv, ScopeInv, NEW c \in Processes, Execute(c)
  PROVE  ScopeInv'
<1> DEFINE o   == run[c]
           n   == o.requests + 1
           one == append(o.ledger, Event("ToolRequested", n), << >>)
           yes == append(one, Event("ToolAllowed", n), << >>)
           no  == append(one, Event("ToolDenied", n), << >>)
<1>1. Fields \subseteq DOMAIN o /\ IsSeq(o.ledger) /\ Scoped(o) /\ o.pc = "idle"
  BY DEF IInv, Private, ScopeInv, Execute
<1>2. ~ o.tmp
  BY <1>1, Zenon DEF Scoped
<1>3. yes[Len(yes)].record = Event("ToolAllowed", n)
  <2> HIDE DEF o, n
  <2>1. IsSeq(one)
    BY <1>1, LedgerSeq
  <2> HIDE DEF one
  <2> QED BY <2>1, LedgerSeq
<1>4. PICK intent :
        \/ /\ v0_1_effective_allow(evaluate([Manifest EXCEPT !.require_containment =
                o.require], o.demonstrated, intent), FALSE)
           /\ run' = [run EXCEPT ![c] = [o EXCEPT !.pc = "dispatch", !.intent = {intent},
                                                  !.requests = n, !.ledger = yes]]
        \/ run' = [run EXCEPT ![c] = [o EXCEPT !.requests = n, !.ledger = no]]
  BY Zenon DEF Execute, Set
<1> HIDE DEF o, n, yes, no
<1>5. CASE run' = [run EXCEPT ![c] = [o EXCEPT !.requests = n, !.ledger = no]]
  <2> DEFINE t == [o EXCEPT !.requests = n, !.ledger = no]
  <2>1. t.pc = "idle" /\ t.tmp = o.tmp
    BY <1>1 DEF Fields
  <2>2. run' = [run EXCEPT ![c] = t]
    BY <1>5
  <2> HIDE DEF t
  <2>3. Scoped(t)
    BY <1>2, <2>1 DEF Scoped
  <2> QED BY Zenon, <2>2, <2>3, ScopeOfOne
<1>6. CASE /\ v0_1_effective_allow(evaluate([Manifest EXCEPT !.require_containment =
                o.require], o.demonstrated, intent), FALSE)
           /\ run' = [run EXCEPT ![c] = [o EXCEPT !.pc = "dispatch", !.intent = {intent},
                                                  !.requests = n, !.ledger = yes]]
  <2> DEFINE s == [o EXCEPT !.pc = "dispatch", !.intent = {intent}, !.requests = n, !.ledger = yes]
  <2>1. /\ s.pc = "dispatch" /\ s.tmp = o.tmp /\ s.intent = {intent} /\ s.requests = n
        /\ s.ledger = yes /\ s.require = o.require /\ s.demonstrated = o.demonstrated
    BY <1>1 DEF Fields
  <2>2. run' = [run EXCEPT ![c] = s]
    BY <1>6
  <2> HIDE DEF s
  <2>3. /\ o.require => o.demonstrated
        /\ \A net \in intent.network : DestinationAllowed(Manifest, net)
    BY Zenon, <1>6, AllowedMeans
  <2>4. Granted(s)
    <3>1. s.require => s.demonstrated
      BY <2>1, <2>3, Zenon
    <3> QED BY <1>3, <2>1, <3>1, Zenon DEF Granted
  <2>5. Scoped(s)
    <3>1. \A i \in s.intent : \A net \in i.network : DestinationAllowed(Manifest, net)
      BY <2>1, <2>3, Zenon
    <3>2. s.pc # "put" /\ ~ s.tmp
      BY <1>2, <2>1
    <3> QED BY <2>4, <3>1, <3>2, Zenon DEF Scoped
  <2> QED BY Zenon, <2>2, <2>5, ScopeOfOne
<1> QED BY Zenon, <1>4, <1>5, <1>6

\* What a tool has read is in scope when it goes to the store.
LEMMA ScopeDispatch ==
  ASSUME IInv, ScopeInv, NEW c \in Processes, Dispatch(c)
  PROVE  ScopeInv'
<1> DEFINE o == run[c]
<1>1. Fields \subseteq DOMAIN o /\ Scoped(o) /\ o.pc = "dispatch"
  BY Zenon DEF IInv, Private, ScopeInv, Dispatch
<1>2. Granted(o) /\ ~ o.tmp
  BY <1>1, Zenon DEF Scoped
<1>3. \/ run' = [run EXCEPT ![c] = [o EXCEPT !.pc = "idle", !.intent = {}]]
      \/ \E intent \in o.intent : \E out \in Touched(intent) :
           run' = [run EXCEPT ![c] = [o EXCEPT !.pc = "put", !.intent = {}, !.todo = <<out, Nothing>>]]
  BY Zenon DEF Dispatch, Set
<1> HIDE DEF o
<1>4. CASE run' = [run EXCEPT ![c] = [o EXCEPT !.pc = "idle", !.intent = {}]]
  <2> DEFINE t == [o EXCEPT !.pc = "idle", !.intent = {}]
  <2>1. t.pc = "idle" /\ t.tmp = o.tmp
    BY <1>1 DEF Fields
  <2>2. run' = [run EXCEPT ![c] = t]
    BY <1>4
  <2> HIDE DEF t
  <2>3. Scoped(t)
    BY <1>2, <2>1 DEF Scoped
  <2> QED BY Zenon, <2>2, <2>3, ScopeOfOne
<1>5. ASSUME NEW intent \in o.intent, NEW out \in Touched(intent),
             run' = [run EXCEPT ![c] = [o EXCEPT !.pc = "put", !.intent = {}, !.todo = <<out, Nothing>>]]
      PROVE  ScopeInv'
  <2> DEFINE u == <<out, Nothing>>
             s == [o EXCEPT !.pc = "put", !.intent = {}, !.todo = u]
  <2>1. InScope(out)
    <3>1. \A net \in intent.network : DestinationAllowed(Manifest, net)
      BY <1>1, Zenon DEF Scoped
    <3> QED BY <3>1, TouchedInScope
  <2>2. run' = [run EXCEPT ![c] = s]
    BY <1>5
  <2>3. \E x : u = <<x, Nothing>> /\ InScope(x)
    BY <2>1
  <2> HIDE DEF u
  <2>4. /\ s.pc = "put" /\ s.tmp = o.tmp /\ s.todo = u /\ s.require = o.require
        /\ s.demonstrated = o.demonstrated /\ s.ledger = o.ledger /\ s.requests = o.requests
    BY <1>1 DEF Fields
  <2> HIDE DEF s
  <2>5. Granted(s)
    BY <1>2, <2>4, Zenon DEF Granted
  <2>6. Scoped(s)
    <3>1. s.pc # "dispatch" /\ ~ s.tmp
      BY <1>2, <2>4
    <3>2. Granted(s) /\ \E x : s.todo = <<x, Nothing>> /\ InScope(x)
      BY <2>3, <2>4, <2>5
    <3> QED BY <3>1, <3>2, Zenon DEF Scoped
  <2> QED BY Zenon, <2>2, <2>6, ScopeOfOne
<1> QED BY Zenon, <1>3, <1>4, <1>5

\* The steps after which the process does not store anything, or one thing.
LEMMA ScopeOthers ==
  ASSUME IInv, ScopeInv, NEW c \in Processes,
         \/ Observe(c) \/ PutExists(c) \/ PutRename(c) \/ PutFails(c) \/ Finish(c)
         \/ Persist(c) \/ Crash(c)
  PROVE  ScopeInv'
<1> DEFINE o == run[c]
           Fine(r) == /\ run' = [run EXCEPT ![c] = r] /\ ~ r.tmp /\ r.pc # "dispatch"
                      /\ r.pc = "put" => r.todo = << >> \/ \E x : r.todo = <<x>>
<1>1. Fields \subseteq DOMAIN o /\ Scoped(o)
  BY DEF IInv, Private, ScopeInv
<1>2. o.pc # "put" \/ o.todo = << >> => ~ o.tmp
  BY <1>1, Zenon DEF Scoped
<1>3. \E r : Fine(r)
  <2>1. CASE Observe(c)
    <3>1. PICK body : run' = [run EXCEPT ![c] =
                        [o EXCEPT !.pc = "put", !.todo = <<body>>, !.requests = @ + 1]]
      BY Zenon, <2>1 DEF Observe, Set
    <3> DEFINE u == <<body>>
               s == [o EXCEPT !.pc = "put", !.todo = u, !.requests = @ + 1]
    <3>2. run' = [run EXCEPT ![c] = s]
      BY <3>1
    <3>3. ~ o.tmp
      BY Zenon, <1>2, <2>1 DEF Observe
    <3>4. \E x : u = <<x>>
      OBVIOUS
    <3> HIDE DEF u, o
    <3>5. s.pc = "put" /\ s.todo = u /\ s.tmp = o.tmp
      BY <1>1 DEF Fields
    <3> HIDE DEF s
    <3>6. Fine(s)
      BY <3>2, <3>3, <3>4, <3>5
    <3> QED BY Zenon, <3>6
  <2>2. CASE PutExists(c) \/ PutRename(c)
    <3> DEFINE s == Stored1(c)
    <3>1. run' = [run EXCEPT ![c] = s] /\ o.pc = "put"
      BY <2>2 DEF PutExists, PutRename, Set
    <3>2. o.todo # << >>
      BY <1>2, <2>2, Zenon DEF PutExists, PutRename
    <3>3. s.pc = "put" /\ s.todo = Tail(o.todo) /\ s.tmp = FALSE
      BY <1>1, <3>1 DEF Fields, Stored1
    <3> HIDE DEF s, o
    <3>4. (\E x : o.todo = <<x>>) \/ \E x : o.todo = <<x, Nothing>>
      BY <1>1, <3>1, <3>2, Zenon DEF Scoped
    <3>5. \A x : Tail(<<x>>) = << >> /\ Tail(<<x, Nothing>>) = <<Nothing>>
      OBVIOUS
    <3>6. s.todo = << >> \/ s.todo = <<Nothing>>
      BY Zenon, <3>3, <3>4, <3>5
    <3>7. Fine(s)
      BY <3>1, <3>3, <3>6
    <3> QED BY Zenon, <3>7
  <2>3. CASE PutFails(c)
    <3> DEFINE s == [o EXCEPT !.pc = "idle", !.todo = << >>, !.made = << >>, !.tmp = FALSE]
    <3>1. run' = [run EXCEPT ![c] = s]
      BY <2>3 DEF PutFails, Set
    <3> HIDE DEF o
    <3>2. s.pc = "idle" /\ s.tmp = FALSE
      BY <1>1 DEF Fields
    <3> HIDE DEF s
    <3>3. Fine(s)
      BY <3>1, <3>2
    <3> QED BY Zenon, <3>3
  <2>4. CASE Finish(c)
    <3>1. ~ o.tmp
      BY <1>2, <2>4, Zenon DEF Finish
    <3>2. PICK x, l : run' = [run EXCEPT ![c] =
                        [o EXCEPT !.pc = "idle", !.made = << >>, !.receipts = x, !.ledger = l]]
      <4>1. CASE Len(o.made) = 2
        <5> DEFINE x == o.receipts \cup {[request |-> o.requests, stdout |-> o.made[1],
                                          stderr |-> o.made[2]]}
        <5>1. run' = [run EXCEPT ![c] = [o EXCEPT !.pc = "idle", !.made = << >>, !.receipts = x]]
          BY <1>1, <2>4, <4>1 DEF Finish, Set, Fields
        <5> HIDE DEF x
        <5>2. [o EXCEPT !.pc = "idle", !.made = << >>, !.receipts = x]
                = [o EXCEPT !.pc = "idle", !.made = << >>, !.receipts = x, !.ledger = o.ledger]
          BY Zenon, <1>1 DEF Fields
        <5> QED BY Zenon, <5>1, <5>2
      <4>2. CASE Len(o.made) = 1
        <5> DEFINE l == append(o.ledger, Event("ObservationRecorded", o.requests), o.made)
        <5>1. run' = [run EXCEPT ![c] = [o EXCEPT !.pc = "idle", !.made = << >>, !.ledger = l]]
          BY <1>1, <2>4, <4>2 DEF Finish, Set, Fields
        <5> HIDE DEF l
        <5>2. [o EXCEPT !.pc = "idle", !.made = << >>, !.ledger = l]
                = [o EXCEPT !.pc = "idle", !.made = << >>, !.receipts = o.receipts, !.ledger = l]
          BY Zenon, <1>1 DEF Fields
        <5> QED BY Zenon, <5>1, <5>2
      <4> QED BY Zenon, <2>4, <4>1, <4>2 DEF Finish
    <3> DEFINE s == [o EXCEPT !.pc = "idle", !.made = << >>, !.receipts = x, !.ledger = l]
    <3>3. run' = [run EXCEPT ![c] = s]
      BY <3>2
    <3> HIDE DEF o
    <3>4. s.pc = "idle" /\ s.tmp = o.tmp
      BY <1>1 DEF Fields
    <3> HIDE DEF s
    <3>5. Fine(s)
      BY <3>1, <3>3, <3>4
    <3> QED BY Zenon, <3>5
  <2>5. CASE Persist(c)
    <3> DEFINE s == [o EXCEPT !.pc = "ended"]
    <3>1. run' = [run EXCEPT ![c] = s] /\ ~ o.tmp
      BY <1>2, <2>5 DEF Persist, Set
    <3> HIDE DEF o
    <3>2. s.pc = "ended" /\ s.tmp = o.tmp
      BY <1>1 DEF Fields
    <3> HIDE DEF s
    <3>3. Fine(s)
      BY <3>1, <3>2
    <3> QED BY Zenon, <3>3
  <2>6. CASE Crash(c)
    <3> DEFINE s == [o EXCEPT !.pc = "crashed", !.tmp = FALSE, !.todo = << >>,
                              !.made = << >>, !.intent = {}]
    <3>1. run' = [run EXCEPT ![c] = s]
      BY <2>6 DEF Crash, Set
    <3> HIDE DEF o
    <3>2. s.pc = "crashed" /\ s.tmp = FALSE
      BY <1>1 DEF Fields
    <3> HIDE DEF s
    <3>3. Fine(s)
      BY <3>1, <3>2
    <3> QED BY Zenon, <3>3
  <2> QED BY <2>1, <2>2, <2>3, <2>4, <2>5, <2>6, Zenon
<1>4. PICK r : Fine(r)
  BY <1>3, Zenon
<1>5. Scoped(r)
  BY <1>4, Zenon DEF Scoped
<1> QED BY Zenon, <1>4, <1>5, ScopeOfOne

\* The temporary file is for what is still to be stored.
LEMMA ScopeCreate ==
  ASSUME IInv, ScopeInv, NEW c \in Processes, PutCreate(c)
  PROVE  ScopeInv'
<1> DEFINE o == run[c]
           s == [o EXCEPT !.tmp = TRUE]
<1>1. Fields \subseteq DOMAIN o /\ Scoped(o)
  BY DEF IInv, Private, ScopeInv
<1>2. run' = [run EXCEPT ![c] = s] /\ o.pc = "put" /\ o.todo # << >>
  BY DEF PutCreate, Set
<1> HIDE DEF o
<1>3. /\ s.pc = o.pc /\ s.tmp = TRUE /\ s.todo = o.todo /\ s.require = o.require
      /\ s.demonstrated = o.demonstrated /\ s.ledger = o.ledger /\ s.requests = o.requests
  BY <1>1 DEF Fields
<1> HIDE DEF s
<1>4. Granted(o) => Granted(s)
  BY <1>3, Zenon DEF Granted
<1>5. Scoped(s)
  <2>1. \/ \E x : s.todo = <<x>>
        \/ Granted(s) /\ \E x : s.todo = <<x, Nothing>> /\ InScope(x)
    BY <1>1, <1>2, <1>3, <1>4, Zenon DEF Scoped
  <2>2. s.pc = "put" /\ s.pc # "dispatch" /\ s.todo # << >>
    BY <1>2, <1>3
  <2> QED BY <2>1, <2>2, Zenon DEF Scoped
<1> QED BY Zenon, <1>2, <1>5, ScopeOfOne

LEMMA ScopeNext == IInv /\ ScopeInv /\ [Next]_vars => ScopeInv'
<1> SUFFICES ASSUME IInv, ScopeInv, [Next]_vars PROVE ScopeInv'
  OBVIOUS
<1>1. CASE UNCHANGED run
  BY <1>1 DEF ScopeInv, Processes
<1>2. ASSUME NEW c \in Processes,
             \/ Execute(c) \/ Dispatch(c) \/ Observe(c) \/ PutExists(c) \/ PutCreate(c)
             \/ PutRename(c) \/ PutFails(c) \/ Finish(c) \/ Persist(c) \/ Crash(c)
      PROVE  ScopeInv'
  BY <1>2, ScopeExecute, ScopeDispatch, ScopeOthers, ScopeCreate
<1>3. \A c \in Processes : Damage(c) => UNCHANGED run
  BY DEF Damage
<1>4. Done \/ UNCHANGED vars => UNCHANGED run
  BY DEF Done, vars
<1> QED BY <1>1, <1>2, <1>3, <1>4 DEF Next

LEMMA ScopeInit == Init => ScopeInv
<1> SUFFICES ASSUME Init, NEW p \in Processes PROVE Scoped(run[p])
  BY DEF ScopeInv
<1>1. run[p].pc = "idle" /\ run[p].tmp = FALSE
  BY DEF Init, Start
<1> QED BY <1>1 DEF Scoped

\* For every manifest, file system and intent, and any number of labs and
\* campaigns, a tool reads only what is in scope, in a sandbox where the
\* manifest demands one, and right after its ToolAllowed: evaluate and
\* canonical_authorized_path stand between every intent and what it reads.
THEOREM ReadsAlwaysInScope == Spec => []ReadsInScope
<1>1. ScopeInv => ReadsInScope
  <2> SUFFICES ASSUME ScopeInv, NEW p \in Processes, run[p].pc = "put", Len(run[p].todo) = 2
               PROVE  Granted(run[p]) /\ InScope(Head(run[p].todo))
    BY Zenon DEF ReadsInScope, Granted, InScope
  <2>1. \A x : Len(<<x>>) # 2 /\ Len(<< >>) # 2 /\ Head(<<x, Nothing>>) = x
    OBVIOUS
  <2>2. Scoped(run[p])
    BY DEF ScopeInv
  <2> QED BY <2>1, <2>2, Zenon DEF Scoped
<1>2. IInv /\ ScopeInv /\ [Next]_vars => (IInv /\ ScopeInv)'
  BY NextOK, ScopeNext
<1> QED BY <1>1, <1>2, InitOK, ScopeInit, PTL DEF Spec

-----------------------------------------------------------------------------
(***************************************************************************)
(* The ledger, in memory and in the database.                              *)
(***************************************************************************)
\* An entry is a record with these fields.
IsEntry(e) ==
  e = [index |-> e.index, previous_hash |-> e.previous_hash, event_hash |-> e.event_hash,
       payload_digest |-> e.payload_digest, digests |-> e.digests, record |-> e.record]

Chain(L) ==
  /\ L \in Seq(Range(L)) /\ verify(L)
  /\ \A i \in DOMAIN L : IsEntry(L[i]) /\ L[i].record.kind \in Kinds

\* With the hash of an entry of L, or none, whatever became of the rest since.
From(e, L) ==
  /\ IsEntry(e)
  /\ e.event_hash = GENESIS \/ \E k \in DOMAIN L : e.event_hash = L[k].event_hash

RowsFrom(rows, L) ==
  /\ \E b \in Nat : DOMAIN rows \subseteq 0 .. b
  /\ \A i \in DOMAIN rows : "payload" \in DOMAIN rows[i] /\ From(rows[i].payload, L)

Process(r) ==
  /\ Fields \subseteq DOMAIN r
  /\ r.pc \in {"idle", "dispatch", "put", "ended", "crashed"}
  /\ r.tmp \in BOOLEAN /\ r.requests \in 0 .. MaxRequests
  /\ (r.intent = {} \/ \E i : r.intent = {i})
  /\ Chain(r.ledger)

\* The rows of a campaign: none before it ended, and its own from then on.
Persisted(c) ==
  /\ run[c].ledger # << >> /\ RowsFrom(table[c], run[c].ledger)
  /\ run[c].pc # "ended" => DOMAIN table[c] = {}
  /\ damage = 0 => table[c] = IF run[c].pc = "ended" THEN RowsOf(run[c].ledger)
                              ELSE [i \in {} |-> i]

LInv ==
  /\ damage \in 0 .. MaxDamage
  /\ DOMAIN run = Processes /\ \A p \in Processes : Process(run[p])
  /\ DOMAIN table = Campaigns /\ \A c \in Campaigns : Persisted(c)
-----------------------------------------------------------------------------
\* In a finite set of numbers there is one with n below it, for each n less
\* than the size of the set: what ORDER BY gives as row n + 1.
LEMMA Ranked ==
  ASSUME NEW S, NEW b \in Nat, S \subseteq 0 .. b, NEW n \in Nat, n < Cardinality(S)
  PROVE  \E i \in S : Cardinality({j \in S : j < i}) = n
<1> DEFINE Below(k) == {j \in S : j < k}
           T == {k \in Nat : n < Cardinality(Below(k))}
<1>0. \A j \in S : j \in Nat /\ j < b + 1 /\ ~ (j < 0)
  OBVIOUS
<1>1. ASSUME NEW k \in Nat PROVE IsFiniteSet(Below(k)) /\ Cardinality(Below(k)) \in Nat
  <2>1. IsFiniteSet(S)
    BY FS_BoundedSetOfNaturals
  <2>2. Below(k) \in SUBSET S
    OBVIOUS
  <2> HIDE DEF Below
  <2>3. IsFiniteSet(Below(k))
    BY <2>1, <2>2, FS_Subset
  <2> QED BY <2>3, FS_CardinalityType
<1>2. b + 1 \in T
  <2>1. Below(b + 1) = S
    BY <1>0, Zenon
  <2> QED BY <2>1
<1>3. 0 \notin T
  <2>1. Below(0) = {}
    BY <1>0, Zenon
  <2>2. Cardinality(Below(0)) = 0
    BY <2>1, FS_EmptySet
  <2> QED BY <2>2
<1>4. PICK m \in T : \A k \in T : m <= k
  <2>1. T \in SUBSET Nat /\ T # {}
    BY Zenon, <1>2
  <2> HIDE DEF T
  <2> QED BY <2>1, Least
<1>5. m \in Nat /\ m - 1 \in Nat /\ m - 1 \notin T
  BY <1>3, <1>4
<1>6. ~ (n < Cardinality(Below(m - 1))) /\ n < Cardinality(Below(m))
  BY <1>4, <1>5
<1>7. Below(m) = IF m - 1 \in S THEN Below(m - 1) \cup {m - 1} ELSE Below(m - 1)
  <2>1. \A j \in S : j < m <=> (j < m - 1 \/ j = m - 1)
    BY <1>0, <1>5
  <2>2. CASE m - 1 \in S
    BY <2>1, <2>2, Zenon
  <2>3. CASE m - 1 \notin S
    BY <2>1, <2>3, Zenon
  <2> QED BY <2>2, <2>3
<1>8. m - 1 \notin Below(m - 1)
  BY <1>5
<1>9. m - 1 \in S
  BY <1>6, <1>7
<1>10. Cardinality(Below(m)) = Cardinality(Below(m - 1)) + 1
  <2>1. Below(m) = Below(m - 1) \cup {m - 1}
    BY <1>7, <1>9
  <2> HIDE DEF Below
  <2> QED BY Zenon, <1>1, <1>5, <1>8, <2>1, FS_AddElement
<1>11. Cardinality(Below(m - 1)) = n
  <2> HIDE DEF Below
  <2>1. Cardinality(Below(m - 1)) \in Nat
    BY <1>1, <1>5
  <2> QED BY <1>6, <1>10, <2>1
<1> QED BY Zenon, <1>9, <1>11

-----------------------------------------------------------------------------
\* EventLedger::append makes a longer chain of a chain.
LEMMA ChainAppend ==
  ASSUME NEW L, Chain(L), NEW record, record.kind \in Kinds, NEW ds
  PROVE  Chain(append(L, record, ds)) /\ append(L, record, ds) # << >>
<1> DEFINE prev == IF L = << >> THEN GENESIS ELSE L[Len(L)].event_hash
           new  == [index |-> Len(L), previous_hash |-> prev,
                    event_hash |-> entry_hash(prev, record, ds),
                    payload_digest |-> payload_digest(record),
                    digests |-> ds, record |-> record]
           M    == Append(L, new)
           S    == Range(L) \cup {new}
<1>1. append(L, record, ds) = M
  BY DEF append
<1>2. /\ new.index = Len(L) /\ new.previous_hash = prev
      /\ new.event_hash = entry_hash(prev, record, ds)
      /\ new.payload_digest = payload_digest(record)
      /\ new.digests = ds /\ new.record = record /\ IsEntry(new)
  BY Zenon DEF IsEntry
<1>3. L \in Seq(S)
  BY DEF Chain
<1> HIDE DEF new
<1>4. /\ M \in Seq(S) /\ Len(L) \in Nat /\ DOMAIN L = 1 .. Len(L) /\ DOMAIN M = 1 .. Len(L) + 1
      /\ M[Len(L) + 1] = new /\ \A i \in DOMAIN L : M[i] = L[i]
  BY <1>3
<1>5. M \in Seq(Range(M)) /\ M # << >>
  BY <1>4 DEF Range
<1>6. prev = IF Len(L) + 1 = 1 THEN GENESIS ELSE M[Len(L)].event_hash
  <2>1. CASE L = << >>
    <3>1. Len(L) = 0
      BY <2>1
    <3> QED BY <2>1, <3>1
  <2>2. CASE L # << >>
    <3>1. Len(L) # 0 /\ Len(L) \in DOMAIN L
      BY <1>3, <1>4, <2>2
    <3>2. M[Len(L)] = L[Len(L)] /\ Len(L) + 1 # 1
      BY <1>4, <3>1
    <3> QED BY <2>2, <3>2
  <2> QED BY <2>1, <2>2
<1> HIDE DEF prev, M, S
<1>7. ASSUME NEW i \in DOMAIN M
      PROVE  /\ M[i].index = i - 1
             /\ M[i].previous_hash = IF i = 1 THEN GENESIS ELSE M[i - 1].event_hash
             /\ M[i].payload_digest = payload_digest(M[i].record)
             /\ M[i].event_hash = entry_hash(M[i].previous_hash, M[i].record, M[i].digests)
             /\ IsEntry(M[i]) /\ M[i].record.kind \in Kinds
  <2>1. CASE i = Len(L) + 1
    <3>1. M[i] = new /\ i - 1 = Len(L)
      BY <1>4, <2>1
    <3> QED BY <1>2, <1>6, <2>1, <3>1
  <2>2. CASE i # Len(L) + 1
    <3>1. i \in DOMAIN L /\ i \in Int /\ (i = 1 \/ i - 1 \in DOMAIN L)
      BY <1>4, <2>2
    <3>2. M[i] = L[i] /\ (i = 1 \/ M[i - 1] = L[i - 1])
      BY <1>4, <3>1
    <3> QED BY <3>1, <3>2 DEF Chain, verify
  <2> QED BY <2>1, <2>2
<1>8. verify(M)
  BY <1>7 DEF verify
<1> QED BY <1>1, <1>5, <1>7, <1>8 DEF Chain

\* The rows of a chain have the idx of its entries.
LEMMA RowsOfChain ==
  ASSUME NEW L, Chain(L)
  PROVE  /\ Len(L) \in Nat /\ DOMAIN L = 1 .. Len(L)
         /\ DOMAIN RowsOf(L) = 0 .. Len(L) - 1
         /\ \A i \in 0 .. Len(L) - 1 : i + 1 \in DOMAIN L /\ RowsOf(L)[i] = Row(L[i + 1])
<1>1. Len(L) \in Nat /\ DOMAIN L = 1 .. Len(L)
  BY DEF Chain
<1>2. \A i \in DOMAIN L : L[i].index = i - 1
  BY DEF Chain, verify
<1>3. {e.index : e \in Range(L)} = 0 .. Len(L) - 1
  <2>1. ASSUME NEW x \in {e.index : e \in Range(L)} PROVE x \in 0 .. Len(L) - 1
    <3>1. PICK k \in DOMAIN L : x = L[k].index
      BY DEF Range
    <3> QED BY <1>1, <1>2, <3>1
  <2>2. ASSUME NEW x \in 0 .. Len(L) - 1 PROVE x \in {e.index : e \in Range(L)}
    <3>1. x + 1 \in DOMAIN L /\ L[x + 1].index = x
      BY <1>1, <1>2
    <3> QED BY <3>1 DEF Range
  <2> QED BY <2>1, <2>2
<1>4. \A i \in 0 .. Len(L) - 1 : i + 1 \in DOMAIN L
  BY <1>1
<1> QED BY Zenon, <1>1, <1>3, <1>4 DEF RowsOf

\* What persist_ledger_for inserts is of the ledger.
LEMMA RowsFromChain ==
  ASSUME NEW L, Chain(L)
  PROVE  RowsFrom(RowsOf(L), L)
<1>1. Len(L) \in Nat /\ DOMAIN RowsOf(L) \subseteq 0 .. Len(L)
  BY RowsOfChain
<1>2. ASSUME NEW i \in DOMAIN RowsOf(L)
      PROVE  "payload" \in DOMAIN RowsOf(L)[i] /\ From(RowsOf(L)[i].payload, L)
  <2>1. i + 1 \in DOMAIN L /\ RowsOf(L)[i] = Row(L[i + 1])
    BY RowsOfChain
  <2>2. "payload" \in DOMAIN RowsOf(L)[i] /\ RowsOf(L)[i].payload = L[i + 1]
    BY <2>1 DEF Row
  <2> QED BY <2>1, <2>2 DEF From, Chain
<1> QED BY <1>1, <1>2 DEF RowsFrom

\* load_ledger_for gives back the chain that was persisted.
LEMMA LoadWhole ==
  ASSUME NEW L, Chain(L), L # << >>
  PROVE  load_ledger_for(RowsOf(L)) = L
<1> DEFINE N    == Len(L)
           rows == RowsOf(L)
           ids  == DOMAIN rows
           Nth(n) == CHOOSE i \in ids : Cardinality({j \in ids : j < i}) = n - 1
<1>1. /\ N \in Nat /\ DOMAIN L = 1 .. N /\ ids = 0 .. N - 1
      /\ \A i \in 0 .. N - 1 : i + 1 \in DOMAIN L /\ rows[i] = Row(L[i + 1])
  BY RowsOfChain
<1>2. N # 0
  BY DEF Chain
<1>3. Cardinality(ids) = N
  BY <1>1, <1>2, FS_Interval
<1>4. ASSUME NEW i \in ids PROVE Cardinality({j \in ids : j < i}) = i
  <2>1. i \in Nat /\ i < N
    BY <1>1
  <2>2. {j \in ids : j < i} = 0 .. i - 1
    <3> HIDE DEF ids
    <3>1. \A j : j \in ids /\ j < i <=> j \in 0 .. i - 1
      BY <1>1, <2>1
    <3> QED BY <3>1, Zenon
  <2> HIDE DEF ids
  <2>3. Cardinality(0 .. i - 1) = i
    BY <2>1, FS_Interval
  <2> QED BY Zenon, <2>2, <2>3
<1> HIDE DEF ids
<1>5. ASSUME NEW n \in 1 .. N PROVE Nth(n) = n - 1
  <2>1. n - 1 \in ids /\ n - 1 \in Int
    BY <1>1
  <2>2. \E i \in ids : Cardinality({j \in ids : j < i}) = n - 1
    BY <1>4, <2>1
  <2>3. Nth(n) \in ids /\ Cardinality({j \in ids : j < Nth(n)}) = n - 1
    BY Zenon, <2>2
  <2> HIDE DEF Nth
  <2> QED BY <1>4, <2>3
<1>6. Stored(rows) = [n \in 1 .. N |-> rows[Nth(n)].payload]
  BY <1>3 DEF Stored, ids
<1> HIDE DEF rows, Nth
<1>7. ASSUME NEW n \in 1 .. N PROVE rows[Nth(n)].payload = L[n]
  <2>1. Nth(n) = n - 1 /\ n - 1 \in 0 .. N - 1 /\ (n - 1) + 1 = n
    BY <1>1, <1>5
  <2>2. rows[n - 1] = Row(L[n])
    BY <1>1, <2>1
  <2> QED BY <2>1, <2>2 DEF Row
<1>8. Stored(rows) = L
  <2>1. L = [n \in 1 .. N |-> L[n]]
    BY <1>1 DEF Chain
  <2> HIDE DEF N
  <2> QED BY <1>6, <1>7, <2>1
<1>9. ASSUME NEW i \in ids PROVE ColumnsAgree(rows[i])
  <2>1. rows[i] = Row(L[i + 1])
    BY <1>1
  <2> QED BY <2>1 DEF ColumnsAgree, Row
<1>10. 0 \in ids
  BY <1>1, <1>2
<1> QED BY <1>8, <1>9, <1>10 DEF load_ledger_for, Chain, ids, rows

\* Without rows load_ledger_for has nothing to give.
LEMMA LoadNothing ==
  ASSUME NEW rows, DOMAIN rows = {}
  PROVE  load_ledger_for(rows) = << >>
BY DEF load_ledger_for

\* A hash determines what it was taken of, and is not that of nothing.
LEMMA HashInjective ==
  ASSUME NEW a, NEW b, NEW c, NEW x, NEW y, NEW z
  PROVE  /\ entry_hash(a, b, c) # GENESIS
         /\ entry_hash(a, b, c) = entry_hash(x, y, z) => a = x /\ b = y /\ c = z
BY DEF entry_hash, GENESIS

\* No two entries of a chain have the same hash: by way of previous_hash it
\* stands for all the entries before.
LEMMA HashesDiffer ==
  ASSUME NEW L, Chain(L), NEW i \in DOMAIN L, NEW k \in DOMAIN L,
         L[i].event_hash = L[k].event_hash
  PROVE  i = k
<1> DEFINE S == {n \in Nat : n \in DOMAIN L =>
                   \A m \in DOMAIN L : L[n].event_hash = L[m].event_hash => n = m}
<1>1. DOMAIN L = 1 .. Len(L) /\ Len(L) \in Nat
  BY DEF Chain
<1>2. \A n \in DOMAIN L :
        /\ L[n].previous_hash = IF n = 1 THEN GENESIS ELSE L[n - 1].event_hash
        /\ L[n].event_hash = entry_hash(L[n].previous_hash, L[n].record, L[n].digests)
  BY Zenon DEF Chain, verify
<1>3. \A n, m \in DOMAIN L :
        /\ L[n].event_hash # GENESIS
        /\ L[n].event_hash = L[m].event_hash => L[n].previous_hash = L[m].previous_hash
  BY <1>2, HashInjective
<1>4. 0 \in S
  BY <1>1
<1>5. ASSUME NEW n \in Nat, n \in S PROVE n + 1 \in S
  <2> SUFFICES ASSUME n + 1 \in DOMAIN L, NEW m \in DOMAIN L,
                      L[n + 1].event_hash = L[m].event_hash
               PROVE  n + 1 = m
    OBVIOUS
  <2>1. L[n + 1].previous_hash = L[m].previous_hash
    BY Zenon, <1>3
  <2>2. m \in Nat /\ (m # 1 => m - 1 \in DOMAIN L) /\ (n # 0 => n \in DOMAIN L /\ n + 1 # 1)
        /\ n + 1 - 1 = n
    BY <1>1
  <2>3. CASE n = 0
    <3>1. L[m].previous_hash = GENESIS
      BY <1>2, <2>1, <2>3
    <3>2. m = 1
      BY Zenon, <1>2, <1>3, <2>2, <3>1
    <3> QED BY <2>3, <3>2
  <2>4. CASE n # 0
    <3>1. L[n + 1].previous_hash = L[n].event_hash
      BY <1>2, <2>2, <2>4
    <3>2. m # 1
      BY Zenon, <1>2, <1>3, <2>1, <2>2, <2>4, <3>1
    <3>3. L[n].event_hash = L[m - 1].event_hash
      BY Zenon, <1>2, <2>1, <3>1, <3>2
    <3>4. n = m - 1
      BY <1>5, <2>2, <2>4, <3>2, <3>3
    <3> QED BY <2>2, <3>4
  <2> QED BY <2>3, <2>4
<1>6. Nat \subseteq S
  <2> HIDE DEF S
  <2> QED BY Zenon, <1>4, <1>5, Ind
<1>7. i \in Nat /\ k \in Nat
  BY <1>1
<1> QED BY <1>6, <1>7

\* What verifies and has only hashes of a chain is the chain, entry by entry.
LEMMA ChainOfOne ==
  ASSUME NEW L, Chain(L), NEW s, NEW N \in Nat, DOMAIN s = 1 .. N, verify(s),
         \A i \in 1 .. N : From(s[i], L), NEW n \in 1 .. N
  PROVE  n \in DOMAIN L /\ s[n] = L[n]
<1> DEFINE S == {m \in Nat : m \in 1 .. N => m \in DOMAIN L /\ s[m] = L[m]}
<1>1. DOMAIN L = 1 .. Len(L) /\ Len(L) \in Nat
  BY DEF Chain
<1>2. ASSUME NEW m \in 1 .. N
      PROVE  \E k \in DOMAIN L :
               /\ s[m].event_hash = L[k].event_hash
               /\ s[m].previous_hash = L[k].previous_hash
               /\ k = m => s[m] = L[m]
  <2>1. /\ s[m].index = m - 1 /\ s[m].payload_digest = payload_digest(s[m].record)
        /\ s[m].event_hash = entry_hash(s[m].previous_hash, s[m].record, s[m].digests)
    BY Zenon DEF verify
  <2>2. PICK k \in DOMAIN L : s[m].event_hash = L[k].event_hash
    BY <2>1, HashInjective DEF From
  <2>3. /\ L[k].index = k - 1 /\ L[k].payload_digest = payload_digest(L[k].record)
        /\ L[k].event_hash = entry_hash(L[k].previous_hash, L[k].record, L[k].digests)
    BY Zenon DEF Chain, verify
  <2>4. /\ s[m].previous_hash = L[k].previous_hash /\ s[m].record = L[k].record
        /\ s[m].digests = L[k].digests
    <3>1. entry_hash(s[m].previous_hash, s[m].record, s[m].digests)
            = entry_hash(L[k].previous_hash, L[k].record, L[k].digests)
      BY Zenon, <2>1, <2>2, <2>3
    <3> QED BY <3>1, HashInjective
  <2>5. IsEntry(s[m]) /\ IsEntry(L[k])
    BY Zenon DEF From, Chain
  <2>6. ASSUME k = m PROVE s[m] = L[m]
    <3>1. s[m].index = L[m].index /\ s[m].payload_digest = L[m].payload_digest
      BY Zenon, <2>1, <2>3, <2>4, <2>6
    <3> QED BY Zenon, <2>2, <2>4, <2>5, <2>6, <3>1 DEF IsEntry
  <2> QED BY Zenon, <2>2, <2>4, <2>6
<1>3. \A m \in DOMAIN L :
        L[m].previous_hash = IF m = 1 THEN GENESIS ELSE L[m - 1].event_hash
  BY Zenon DEF Chain, verify
<1>4. \A m \in 1 .. N :
        s[m].previous_hash = IF m = 1 THEN GENESIS ELSE s[m - 1].event_hash
  BY Zenon DEF verify
<1>5. \A m \in DOMAIN L : L[m].event_hash # GENESIS
  BY HashInjective DEF Chain, verify
<1>6. 0 \in S
  OBVIOUS
<1>7. ASSUME NEW m \in Nat, m \in S PROVE m + 1 \in S
  <2> SUFFICES ASSUME m + 1 \in 1 .. N
               PROVE  m + 1 \in DOMAIN L /\ s[m + 1] = L[m + 1]
    OBVIOUS
  <2>1. PICK k \in DOMAIN L : /\ s[m + 1].previous_hash = L[k].previous_hash
                              /\ k = m + 1 => s[m + 1] = L[m + 1]
    BY Zenon, <1>2
  <2>2. k \in Nat /\ (k # 1 => k - 1 \in DOMAIN L) /\ (m # 0 => m \in 1 .. N /\ m + 1 # 1)
        /\ m + 1 - 1 = m
    BY <1>1
  <2>3. CASE m = 0
    <3>1. L[k].previous_hash = GENESIS
      BY <1>4, <2>1, <2>3
    <3>2. k = 1
      BY Zenon, <1>3, <1>5, <2>2, <3>1
    <3> QED BY <2>1, <2>3, <3>2
  <2>4. CASE m # 0
    <3>1. m \in DOMAIN L /\ s[m] = L[m]
      BY <1>7, <2>2, <2>4
    <3>2. s[m + 1].previous_hash = L[m].event_hash
      BY <1>4, <2>2, <2>4, <3>1
    <3>3. k # 1
      BY <1>3, <1>5, <2>1, <3>1, <3>2
    <3>4. L[k - 1].event_hash = L[m].event_hash
      BY <1>3, <2>1, <3>2, <3>3
    <3>5. k - 1 = m
      BY Zenon, <2>2, <3>1, <3>3, <3>4, HashesDiffer
    <3>6. k = m + 1
      BY <2>2, <3>5
    <3> QED BY <2>1, <3>6
  <2> QED BY <2>3, <2>4
<1>8. Nat \subseteq S
  <2> HIDE DEF S
  <2> QED BY Zenon, <1>6, <1>7, Ind
<1>9. n \in Nat
  OBVIOUS
<1> QED BY <1>8, <1>9

\* A ledger that load_ledger_for accepts has the entries of the recorded one,
\* from the first on: a row has its entry's hash or none, the check of the hash
\* leaves nothing of the entry open, and that of the previous one no gap.
LEMMA LoadPrefix ==
  ASSUME NEW L, Chain(L), NEW rows, RowsFrom(rows, L)
  PROVE  load_ledger_for(rows) \in Beginnings(L)
<1> DEFINE s   == Stored(rows)
           ids == DOMAIN rows
           N   == Cardinality(ids)
           Nth(n) == CHOOSE i \in ids : Cardinality({j \in ids : j < i}) = n - 1
<1>1. L \in Seq(Range(L)) /\ Len(L) \in Nat /\ DOMAIN L = 1 .. Len(L)
  BY DEF Chain
<1>2. CASE load_ledger_for(rows) = << >>
  <2>1. 0 \in 0 .. Len(L) /\ SubSeq(L, 1, 0) = << >>
    BY <1>1
  <2> QED BY <1>2, <2>1 DEF Beginnings
<1>3. CASE load_ledger_for(rows) # << >>
  <2>1. load_ledger_for(rows) = s /\ verify(s)
    BY <1>3 DEF load_ledger_for
  <2>2. PICK b \in Nat : ids \subseteq 0 .. b
    BY DEF RowsFrom
  <2> HIDE DEF ids
  <2>3. N \in Nat
    <3>1. IsFiniteSet(ids)
      BY <2>2, FS_BoundedSetOfNaturals
    <3> QED BY <3>1, FS_CardinalityType
  <2>4. ASSUME NEW n \in 1 .. N PROVE Nth(n) \in ids
    <3>1. n - 1 \in Nat /\ n - 1 < N
      BY <2>3
    <3>2. \E i \in ids : Cardinality({j \in ids : j < i}) = n - 1
      BY Zenon, <2>2, <3>1, Ranked
    <3> QED BY <3>2
  <2>5. s = [n \in 1 .. N |-> rows[Nth(n)].payload]
    BY DEF Stored, ids
  <2> HIDE DEF s, N, Nth
  <2>6. ASSUME NEW n \in 1 .. N PROVE n \in DOMAIN L /\ s[n] = L[n]
    <3>1. \A i \in 1 .. N : i \in DOMAIN s /\ From(s[i], L)
      BY <2>4, <2>5 DEF RowsFrom, ids
    <3>2. DOMAIN s = 1 .. N
      BY <2>5
    <3> QED BY Zenon, <2>1, <2>3, <3>1, <3>2, ChainOfOne
  <2>7. s \in Seq(Range(L)) /\ Len(s) = N /\ N <= Len(L)
    <3>1. \A n \in 1 .. N : s[n] \in Range(L)
      BY <2>6 DEF Range
    <3>2. s \in [1 .. N -> Range(L)]
      BY <2>5, <3>1
    <3>3. N <= Len(L)
      BY <1>1, <2>3, <2>6
    <3> QED BY <2>3, <3>2, <3>3
  <2>8. s = SubSeq(L, 1, N) /\ N \in 0 .. Len(L)
    BY <1>1, <2>3, <2>6, <2>7
  <2> QED BY <2>1, <2>8 DEF Beginnings
<1> QED BY <1>2, <1>3

-----------------------------------------------------------------------------
\* A step of one process that has not ended and does not end by it.
LEMMA LedgerOfOne ==
  ASSUME LInv, NEW c \in Processes, NEW r, run' = [run EXCEPT ![c] = r],
         run[c].pc # "ended", r.pc # "ended", Process(r),
         run[c].ledger # << >> => r.ledger # << >>, UNCHANGED <<table, damage>>
  PROVE  LInv'
<1>1. DOMAIN run' = Processes /\ \A p \in Processes : run'[p] = IF p = c THEN r ELSE run[p]
  BY DEF LInv
<1>2. \A p \in Processes : Process(run'[p])
  BY <1>1 DEF LInv
<1>3. ASSUME NEW x \in Campaigns PROVE Persisted(x)'
  <2>1. Persisted(x) /\ x \in Processes
    BY DEF LInv, Processes
  <2>2. CASE x # c
    <3>1. run'[x] = run[x]
      BY <1>1, <2>1, <2>2
    <3> QED BY <2>1, <3>1 DEF Persisted
  <2>3. CASE x = c
    <3>1. run'[x] = r /\ DOMAIN table[x] = {} /\ r.ledger # << >>
      BY <1>1, <2>1, <2>3 DEF Persisted
    <3>2. RowsFrom(table[x], r.ledger)
      <4>1. DOMAIN table[x] \subseteq 0 .. 0 /\ 0 \in Nat
        BY <3>1
      <4> QED BY <3>1, <4>1 DEF RowsFrom
    <3>3. damage = 0 => table[x] = [i \in {} |-> i]
      BY <2>1, <2>3 DEF Persisted
    <3> QED BY <3>1, <3>2, <3>3 DEF Persisted
  <2> QED BY <2>2, <2>3
<1>4. damage' \in 0 .. MaxDamage /\ DOMAIN table' = Campaigns
  BY DEF LInv
<1> QED BY <1>1, <1>2, <1>3, <1>4, Zenon DEF LInv, Processes

\* The request and the verdict are two entries more.
LEMMA LedgerExecute ==
  ASSUME LInv, NEW c \in Processes, Execute(c)
  PROVE  LInv'
<1> DEFINE o   == run[c]
           n   == o.requests + 1
           one == append(o.ledger, Event("ToolRequested", n), << >>)
           yes == append(one, Event("ToolAllowed", n), << >>)
           no  == append(one, Event("ToolDenied", n), << >>)
<1>1. Process(o) /\ Fields \subseteq DOMAIN o
  BY DEF LInv, Process
<1>2. \A k \in Kinds : Event(k, n).kind \in Kinds
  BY Zenon DEF Event
<1>3. {"ToolRequested", "ToolAllowed", "ToolDenied"} \subseteq Kinds
  BY DEF Kinds
<1>4. o.pc = "idle" /\ n \in 0 .. MaxRequests /\ UNCHANGED <<table, damage>>
  <2>1. o.pc = "idle" /\ o.requests < MaxRequests /\ UNCHANGED <<table, damage>>
    BY DEF Execute, More
  <2>2. o.requests \in 0 .. MaxRequests
    BY Zenon, <1>1 DEF Process
  <2> QED BY <2>1, <2>2, BoundsAssumption
<1>5. PICK intent :
        run' = [run EXCEPT ![c] =
          IF v0_1_effective_allow(evaluate([Manifest EXCEPT !.require_containment =
               o.require], o.demonstrated, intent), FALSE)
          THEN [o EXCEPT !.pc = "dispatch", !.intent = {intent}, !.requests = n, !.ledger = yes]
          ELSE [o EXCEPT !.requests = n, !.ledger = no]]
  BY Zenon DEF Execute, Set
<1> HIDE DEF o, n
<1>6. Chain(one)
  BY <1>1, <1>2, <1>3, ChainAppend DEF Process
<1> HIDE DEF one
<1>7. Chain(yes) /\ yes # << >> /\ Chain(no) /\ no # << >>
  BY <1>2, <1>3, <1>6, ChainAppend
<1> HIDE DEF yes, no
<1> DEFINE s == [o EXCEPT !.pc = "dispatch", !.intent = {intent}, !.requests = n, !.ledger = yes]
           t == [o EXCEPT !.requests = n, !.ledger = no]
<1>8. /\ DOMAIN s = DOMAIN o /\ s.pc = "dispatch" /\ s.tmp = o.tmp /\ s.requests = n
      /\ s.intent = {intent} /\ s.ledger = yes
  BY <1>1 DEF Fields
<1>9. /\ DOMAIN t = DOMAIN o /\ t.pc = o.pc /\ t.tmp = o.tmp /\ t.requests = n
      /\ t.intent = o.intent /\ t.ledger = no
  BY <1>1 DEF Fields
<1>10. run' = [run EXCEPT ![c] = s] \/ run' = [run EXCEPT ![c] = t]
  BY Zenon, <1>5
<1> HIDE DEF s, t
<1>11. Process(s)
  BY Zenon, <1>1, <1>4, <1>7, <1>8 DEF Process
<1>12. Process(t)
  BY Zenon, <1>1, <1>4, <1>7, <1>9 DEF Process
<1>13. run[c].pc # "ended" /\ s.pc # "ended" /\ t.pc # "ended"
  BY <1>4, <1>8, <1>9 DEF o
<1> QED BY <1>4, <1>7, <1>8, <1>9, <1>10, <1>11, <1>12, <1>13, LedgerOfOne

\* The steps that leave the ledger of a process alone.
LEMMA LedgerControl ==
  ASSUME LInv, NEW c \in Processes,
         \/ Dispatch(c) \/ Observe(c) \/ PutExists(c) \/ PutCreate(c)
         \/ PutRename(c) \/ PutFails(c) \/ Crash(c)
  PROVE  LInv'
<1> DEFINE o == run[c]
<1>1. Process(o) /\ Fields \subseteq DOMAIN o
  BY Zenon DEF LInv, Process
<1>2. UNCHANGED <<table, damage>>
  BY Zenon DEF Dispatch, Observe, PutExists, PutCreate, PutRename, PutFails, Crash
<1>3. o.pc # "ended"
  BY Zenon DEF Dispatch, Observe, PutExists, PutCreate, PutRename, PutFails, Crash
<1> DEFINE Like(r) == /\ run' = [run EXCEPT ![c] = r] /\ DOMAIN r = DOMAIN o
                      /\ r.pc \in {"idle", "put", "crashed"} \cup {o.pc}
                      /\ r.tmp \in BOOLEAN /\ r.intent \in {{}, o.intent}
                      /\ r.requests \in 0 .. MaxRequests /\ r.ledger = o.ledger
<1>4. o.tmp \in BOOLEAN /\ o.requests \in 0 .. MaxRequests
  BY <1>1 DEF Process
<1>5. \E r : Like(r)
  <2>1. CASE Dispatch(c)
    <3>1. PICK u : \/ run' = [run EXCEPT ![c] = [o EXCEPT !.pc = "put", !.intent = {}, !.todo = u]]
                   \/ run' = [run EXCEPT ![c] = [o EXCEPT !.pc = "idle", !.intent = {}]]
      BY Zenon, <2>1 DEF Dispatch, Set
    <3> DEFINE s == [o EXCEPT !.pc = "put", !.intent = {}, !.todo = u]
               t == [o EXCEPT !.pc = "idle", !.intent = {}]
    <3> HIDE DEF o
    <3>2. /\ DOMAIN s = DOMAIN o /\ s.pc = "put" /\ s.tmp = o.tmp /\ s.intent = {}
          /\ s.requests = o.requests /\ s.ledger = o.ledger
      BY <1>1 DEF Fields
    <3>3. /\ DOMAIN t = DOMAIN o /\ t.pc = "idle" /\ t.tmp = o.tmp /\ t.intent = {}
          /\ t.requests = o.requests /\ t.ledger = o.ledger
      BY <1>1 DEF Fields
    <3>4. run' = [run EXCEPT ![c] = s] \/ run' = [run EXCEPT ![c] = t]
      BY <3>1
    <3> HIDE DEF s, t
    <3> QED BY Zenon, <1>4, <3>2, <3>3, <3>4
  <2>2. CASE Observe(c)
    <3>1. PICK u : run' = [run EXCEPT ![c] =
                     [o EXCEPT !.pc = "put", !.todo = u, !.requests = o.requests + 1]]
      BY Zenon, <1>1, <2>2 DEF Observe, Set, Fields
    <3>2. o.requests < MaxRequests
      BY Zenon, <2>2 DEF Observe, More
    <3> DEFINE s == [o EXCEPT !.pc = "put", !.todo = u, !.requests = o.requests + 1]
    <3> HIDE DEF o
    <3>3. /\ DOMAIN s = DOMAIN o /\ s.pc = "put" /\ s.tmp = o.tmp /\ s.intent = o.intent
          /\ s.requests = o.requests + 1 /\ s.ledger = o.ledger
      BY <1>1 DEF Fields
    <3>4. o.requests + 1 \in 0 .. MaxRequests
      BY <1>4, <3>2, BoundsAssumption
    <3>5. run' = [run EXCEPT ![c] = s]
      BY <3>1
    <3> HIDE DEF s
    <3> QED BY Zenon, <1>4, <3>3, <3>4, <3>5
  <2>3. CASE PutExists(c) \/ PutRename(c)
    <3> DEFINE s == Stored1(c)
    <3>1. run' = [run EXCEPT ![c] = s]
      BY <2>3 DEF PutExists, PutRename, Set
    <3>2. /\ DOMAIN s = DOMAIN o /\ s.pc = o.pc /\ s.tmp = FALSE /\ s.intent = o.intent
          /\ s.requests = o.requests /\ s.ledger = o.ledger
      BY <1>1 DEF Fields, Stored1
    <3> HIDE DEF s, o
    <3> QED BY Zenon, <1>4, <3>1, <3>2
  <2>4. CASE PutCreate(c)
    <3> DEFINE s == [o EXCEPT !.tmp = TRUE]
    <3>1. run' = [run EXCEPT ![c] = s]
      BY <2>4 DEF PutCreate, Set
    <3> HIDE DEF o
    <3>2. /\ DOMAIN s = DOMAIN o /\ s.pc = o.pc /\ s.tmp = TRUE /\ s.intent = o.intent
          /\ s.requests = o.requests /\ s.ledger = o.ledger
      BY <1>1 DEF Fields
    <3> HIDE DEF s
    <3> QED BY Zenon, <1>4, <3>1, <3>2
  <2>5. CASE PutFails(c)
    <3> DEFINE s == [o EXCEPT !.pc = "idle", !.todo = << >>, !.made = << >>, !.tmp = FALSE]
    <3>1. run' = [run EXCEPT ![c] = s]
      BY <2>5 DEF PutFails, Set
    <3> HIDE DEF o
    <3>2. /\ DOMAIN s = DOMAIN o /\ s.pc = "idle" /\ s.tmp = FALSE /\ s.intent = o.intent
          /\ s.requests = o.requests /\ s.ledger = o.ledger
      BY <1>1 DEF Fields
    <3> HIDE DEF s
    <3> QED BY Zenon, <1>4, <3>1, <3>2
  <2>6. CASE Crash(c)
    <3> DEFINE s == [o EXCEPT !.pc = "crashed", !.tmp = FALSE, !.todo = << >>,
                              !.made = << >>, !.intent = {}]
    <3>1. run' = [run EXCEPT ![c] = s]
      BY <2>6 DEF Crash, Set
    <3> HIDE DEF o
    <3>2. /\ DOMAIN s = DOMAIN o /\ s.pc = "crashed" /\ s.tmp = FALSE /\ s.intent = {}
          /\ s.requests = o.requests /\ s.ledger = o.ledger
      BY <1>1 DEF Fields
    <3> HIDE DEF s
    <3> QED BY Zenon, <1>4, <3>1, <3>2
  <2> QED BY Zenon, <2>1, <2>2, <2>3, <2>4, <2>5, <2>6
<1>6. PICK r : Like(r)
  BY Zenon, <1>5
<1>7. Process(r) /\ r.pc # "ended"
  <2> HIDE DEF o
  <2> QED BY Zenon, <1>1, <1>3, <1>6 DEF Process
<1> QED BY Zenon, <1>2, <1>3, <1>6, <1>7, LedgerOfOne

\* The receipt, or the record of the observation.
LEMMA LedgerFinish ==
  ASSUME LInv, NEW c \in Processes, Finish(c)
  PROVE  LInv'
<1> DEFINE o == run[c]
<1>1. Process(o) /\ Fields \subseteq DOMAIN o
  BY DEF LInv, Process
<1>2. UNCHANGED <<table, damage>> /\ o.pc = "put"
  BY DEF Finish
<1>3. CASE Len(o.made) = 2
  <2> DEFINE x == [request |-> o.requests, stdout |-> o.made[1], stderr |-> o.made[2]]
             r == [o EXCEPT !.pc = "idle", !.made = << >>, !.receipts = @ \cup {x}]
  <2>1. run' = [run EXCEPT ![c] = r]
    BY <1>3 DEF Finish, Set
  <2> HIDE DEF x, o
  <2>2. /\ DOMAIN r = DOMAIN o /\ r.pc = "idle" /\ r.tmp = o.tmp /\ r.intent = o.intent
        /\ r.requests = o.requests /\ r.ledger = o.ledger
    BY <1>1 DEF Fields
  <2> HIDE DEF r
  <2>3. Process(r)
    BY <1>1, <2>2 DEF Process
  <2> QED BY Zenon, <1>2, <2>1, <2>2, <2>3, LedgerOfOne DEF o
<1>4. CASE Len(o.made) = 1
  <2> DEFINE new == append(o.ledger, Event("ObservationRecorded", o.requests), o.made)
             r   == [o EXCEPT !.pc = "idle", !.made = << >>, !.ledger = new]
  <2>1. run' = [run EXCEPT ![c] = r]
    BY <1>4 DEF Finish, Set
  <2> HIDE DEF o
  <2>2. Chain(new) /\ new # << >>
    <3>1. Event("ObservationRecorded", o.requests).kind \in Kinds
      BY DEF Event, Kinds
    <3> QED BY Zenon, <1>1, <3>1, ChainAppend DEF Process
  <2> HIDE DEF new
  <2>3. /\ DOMAIN r = DOMAIN o /\ r.pc = "idle" /\ r.tmp = o.tmp /\ r.intent = o.intent
        /\ r.requests = o.requests /\ r.ledger = new
    BY <1>1 DEF Fields
  <2> HIDE DEF r
  <2>4. Process(r)
    BY Zenon, <1>1, <2>2, <2>3 DEF Process
  <2> QED BY Zenon, <1>2, <2>1, <2>2, <2>3, <2>4, LedgerOfOne DEF o
<1> QED BY <1>3, <1>4 DEF Finish

\* persist_ledger_for replaces the rows of this campaign and of no other.
LEMMA LedgerPersist ==
  ASSUME LInv, NEW c \in Processes, Persist(c)
  PROVE  LInv'
<1> DEFINE o == run[c]
           r == [o EXCEPT !.pc = "ended"]
<1>1. Process(o) /\ Fields \subseteq DOMAIN o
  BY DEF LInv, Process
<1>2. /\ c \in Campaigns /\ UNCHANGED damage
      /\ run' = [run EXCEPT ![c] = r] /\ table' = [table EXCEPT ![c] = RowsOf(o.ledger)]
  BY DEF Persist, Set
<1> HIDE DEF o
<1>3. /\ DOMAIN r = DOMAIN o /\ r.pc = "ended" /\ r.tmp = o.tmp /\ r.intent = o.intent
      /\ r.requests = o.requests /\ r.ledger = o.ledger
  BY <1>1 DEF Fields
<1> HIDE DEF r
<1>4. Process(r)
  BY <1>1, <1>3 DEF Process
<1>5. DOMAIN run' = Processes /\ \A p \in Processes : run'[p] = IF p = c THEN r ELSE run[p]
  BY <1>2 DEF LInv
<1>6. /\ DOMAIN table' = Campaigns
      /\ \A x \in Campaigns : table'[x] = IF x = c THEN RowsOf(o.ledger) ELSE table[x]
  BY <1>2 DEF LInv
<1>7. ASSUME NEW x \in Campaigns PROVE Persisted(x)'
  <2>1. Persisted(x) /\ x \in Processes
    BY DEF LInv, Processes
  <2>2. CASE x # c
    <3>1. run'[x] = run[x] /\ table'[x] = table[x]
      BY <1>5, <1>6, <2>1, <2>2
    <3> QED BY <1>2, <2>1, <3>1 DEF Persisted
  <2>3. CASE x = c
    <3>1. run'[x] = r /\ table'[x] = RowsOf(r.ledger)
      BY <1>3, <1>5, <1>6, <2>1, <2>3
    <3>2. r.ledger # << >>
      BY <1>3, <2>1, <2>3 DEF Persisted, o
    <3>3. RowsFrom(RowsOf(r.ledger), r.ledger)
      BY <1>4, RowsFromChain DEF Process
    <3> QED BY Zenon, <1>3, <3>1, <3>2, <3>3 DEF Persisted
  <2> QED BY <2>2, <2>3
<1>8. \A p \in Processes : Process(run'[p])
  BY <1>4, <1>5 DEF LInv
<1>9. damage' \in 0 .. MaxDamage
  BY <1>2 DEF LInv
<1> QED BY <1>5, <1>6, <1>7, <1>8, <1>9, Zenon DEF LInv, Processes

\* A bad row has its entry's index and hash still, or is gone.
LEMMA BadRow ==
  ASSUME NEW row, "payload" \in DOMAIN row, NEW L, From(row.payload, L),
         NEW new \in Changed(row)
  PROVE  "payload" \in DOMAIN new /\ From(new.payload, L)
<1> DEFINE e == row.payload
<1>1. IsEntry(e) /\ DOMAIN e = {"index", "previous_hash", "event_hash", "payload_digest",
                                "digests", "record"}
  BY DEF From, IsEntry
<1>2. CASE new = [row EXCEPT !.event_hash = GENESIS]
  BY <1>2
<1>3. ASSUME NEW f, \/ \E v : f = [e EXCEPT !.digests = v]
                    \/ \E v : f = [e EXCEPT !.index = v]
                    \/ \E v : f = [e EXCEPT !.previous_hash = v]
                    \/ \E v : f = [e EXCEPT !.record = v]
                    \/ f = [e EXCEPT !.event_hash = GENESIS]
      PROVE  From(f, L)
  <2> HIDE DEF e
  <2>1. f.event_hash \in {GENESIS, e.event_hash}
    BY <1>1, <1>3
  <2>2. IsEntry(f)
    <3>1. CASE \E v : f = [e EXCEPT !.digests = v]
      BY <1>1, <3>1 DEF IsEntry
    <3>2. CASE \E v : f = [e EXCEPT !.index = v]
      BY <1>1, <3>2 DEF IsEntry
    <3>3. CASE \E v : f = [e EXCEPT !.previous_hash = v]
      BY <1>1, <3>3 DEF IsEntry
    <3>4. CASE \E v : f = [e EXCEPT !.record = v]
      BY <1>1, <3>4 DEF IsEntry
    <3>5. CASE f = [e EXCEPT !.event_hash = GENESIS]
      BY <1>1, <3>5 DEF IsEntry
    <3> QED BY <1>3, <3>1, <3>2, <3>3, <3>4, <3>5
  <2>3. From(e, L)
    BY DEF e
  <2> QED BY <2>1, <2>2, <2>3 DEF From
<1>4. ASSUME new # [row EXCEPT !.event_hash = GENESIS]
      PROVE  /\ "payload" \in DOMAIN new
             /\ \/ \E v : new.payload = [e EXCEPT !.digests = v]
                \/ \E v : new.payload = [e EXCEPT !.index = v]
                \/ \E v : new.payload = [e EXCEPT !.previous_hash = v]
                \/ \E v : new.payload = [e EXCEPT !.record = v]
                \/ new.payload = [e EXCEPT !.event_hash = GENESIS]
  BY Zenon, <1>4 DEF Changed
<1> QED BY Zenon, <1>2, <1>3, <1>4

LEMMA LedgerDamage ==
  ASSUME LInv, NEW c \in Processes, Damage(c)
  PROVE  LInv'
<1> DEFINE rows == table[c]
           L    == run[c].ledger
<1>1. c \in Campaigns /\ UNCHANGED run /\ damage < MaxDamage /\ damage' = damage + 1
  BY DEF Damage
<1>2. RowsFrom(rows, L) /\ Persisted(c)
  BY <1>1 DEF LInv, Persisted
<1>3. PICK i \in DOMAIN table[c] :
        \/ table' = [table EXCEPT ![c] = [j \in DOMAIN @ \ {i} |-> @[j]]]
        \/ \E k \in 0 .. (Cardinality(DOMAIN table[c]) + 1) \ DOMAIN table[c] :
             table' = [table EXCEPT ![c] =
               [j \in (DOMAIN @ \ {i}) \cup {k} |-> IF j = k THEN @[i] ELSE @[j]]]
        \/ \E row \in Changed(table[c][i]) : table' = [table EXCEPT ![c][i] = row]
  BY Zenon DEF Damage
<1>4. PICK b \in Nat : DOMAIN rows \subseteq 0 .. b
  BY <1>2 DEF RowsFrom
<1>5. Cardinality(DOMAIN rows) \in Nat
  <2> DEFINE ids == DOMAIN rows
  <2>1. ids \in SUBSET Nat /\ \A j \in ids : j <= b
    BY <1>4
  <2> HIDE DEF ids
  <2>2. IsFiniteSet(ids)
    BY <2>1, FS_BoundedSetOfNaturals
  <2>3. Cardinality(ids) \in Nat
    BY <2>2, FS_CardinalityType
  <2> QED BY <2>3 DEF ids
<1>6. \A j \in DOMAIN rows : "payload" \in DOMAIN rows[j] /\ From(rows[j].payload, L)
  BY Zenon, <1>2 DEF RowsFrom
<1>7. \E new : table' = [table EXCEPT ![c] = new] /\ RowsFrom(new, L)
  <2>1. CASE table' = [table EXCEPT ![c] = [j \in DOMAIN rows \ {i} |-> rows[j]]]
    <3> DEFINE s == [j \in DOMAIN rows \ {i} |-> rows[j]]
    <3> HIDE DEF rows, L
    <3>1. RowsFrom(s, L)
      BY <1>4, <1>6 DEF RowsFrom
    <3>2. table' = [table EXCEPT ![c] = s]
      BY <2>1
    <3> HIDE DEF s
    <3> QED BY Zenon, <3>1, <3>2
  <2>2. ASSUME NEW k \in 0 .. (Cardinality(DOMAIN rows) + 1) \ DOMAIN rows,
               table' = [table EXCEPT ![c] =
          [j \in (DOMAIN rows \ {i}) \cup {k} |-> IF j = k THEN rows[i] ELSE rows[j]]]
        PROVE  \E new : table' = [table EXCEPT ![c] = new] /\ RowsFrom(new, L)
    <3> DEFINE s == [j \in (DOMAIN rows \ {i}) \cup {k} |-> IF j = k THEN rows[i] ELSE rows[j]]
    <3>1. i \in DOMAIN rows
      OBVIOUS
    <3>2. table' = [table EXCEPT ![c] = s]
      BY <2>2
    <3> HIDE DEF rows, L
    <3>3. k \in Nat
      BY <1>5
    <3>4. DOMAIN s \subseteq 0 .. (b + k) /\ b + k \in Nat
      BY <1>4, <3>3
    <3>5. \A j \in DOMAIN s : "payload" \in DOMAIN s[j] /\ From(s[j].payload, L)
      BY <1>6, <3>1
    <3>6. RowsFrom(s, L)
      <4> HIDE DEF s
      <4> QED BY <3>4, <3>5 DEF RowsFrom
    <3> HIDE DEF s
    <3> QED BY Zenon, <3>2, <3>6
  <2>3. ASSUME NEW row \in Changed(rows[i]), table' = [table EXCEPT ![c][i] = row]
        PROVE  \E new : table' = [table EXCEPT ![c] = new] /\ RowsFrom(new, L)
    <3> DEFINE s == [rows EXCEPT ![i] = row]
    <3>1. i \in DOMAIN rows
      OBVIOUS
    <3>2. table' = [table EXCEPT ![c] = s]
      BY <2>3
    <3> HIDE DEF rows, L
    <3>3. "payload" \in DOMAIN row /\ From(row.payload, L)
      BY <1>6, <3>1, BadRow
    <3>4. \A j \in DOMAIN s : "payload" \in DOMAIN s[j] /\ From(s[j].payload, L)
      BY <1>6, <3>3
    <3>5. RowsFrom(s, L)
      BY <1>4, <3>4 DEF RowsFrom
    <3> HIDE DEF s
    <3> QED BY Zenon, <3>2, <3>5
  <2> QED BY Zenon, <1>3, <2>1, <2>2, <2>3
<1>8. PICK new : table' = [table EXCEPT ![c] = new] /\ RowsFrom(new, L)
  BY Zenon, <1>7
<1>9. /\ DOMAIN table' = Campaigns
      /\ \A x \in Campaigns : table'[x] = IF x = c THEN new ELSE table[x]
  BY <1>8 DEF LInv
<1>10. damage' \in 0 .. MaxDamage /\ damage' # 0
  BY <1>1, BoundsAssumption DEF LInv
<1>11. run[c].pc = "ended"
  <2>1. DOMAIN table[c] # {}
    OBVIOUS
  <2> QED BY <1>2, <2>1 DEF Persisted
<1>12. ASSUME NEW x \in Campaigns PROVE Persisted(x)'
  <2>1. Persisted(x)
    BY DEF LInv
  <2>2. CASE x = c
    BY Zenon, <1>1, <1>2, <1>8, <1>9, <1>10, <1>11, <2>2 DEF Persisted
  <2>3. CASE x # c
    BY Zenon, <1>1, <1>9, <1>10, <2>1, <2>3 DEF Persisted
  <2> QED BY <2>2, <2>3
<1> QED BY <1>1, <1>9, <1>10, <1>12 DEF LInv, Processes

-----------------------------------------------------------------------------
LEMMA LedgerInit == Init => LInv
<1> SUFFICES ASSUME Init PROVE LInv
  OBVIOUS
<1>1. Chain(<< >>)
  <2>1. DOMAIN << >> = {} /\ << >> \in Seq(Range(<< >>))
    OBVIOUS
  <2> QED BY <2>1, Zenon DEF Chain, verify
<1>2. ASSUME NEW p PROVE Chain(Ledger0(p)) /\ (p \in Campaigns => Ledger0(p) # << >>)
  <2>1. Event("TargetSnapshotted", 0).kind \in Kinds
    BY DEF Event, Kinds
  <2> QED BY <1>1, <2>1, ChainAppend DEF Ledger0
<1>3. ASSUME NEW p \in Processes
      PROVE  Process(run[p]) /\ run[p].pc = "idle" /\ run[p].ledger = Ledger0(p)
  <2>1. PICK b \in BOOLEAN : run[p] =
          [pc |-> "idle", require |-> b, demonstrated |-> b /\ p \in Campaigns,
           intent |-> {}, todo |-> << >>, tmp |-> FALSE, made |-> << >>,
           ledger |-> Ledger0(p), receipts |-> {}, requests |-> 0]
    BY DEF Init, Start
  <2>2. /\ Fields \subseteq DOMAIN run[p] /\ run[p].pc = "idle" /\ run[p].tmp = FALSE
        /\ run[p].ledger = Ledger0(p) /\ run[p].intent = {} /\ run[p].requests = 0
    BY <2>1 DEF Fields
  <2>3. 0 \in 0 .. MaxRequests
    BY BoundsAssumption
  <2> QED BY Zenon, <1>2, <2>2, <2>3 DEF Process
<1>4. /\ damage = 0 /\ DOMAIN table = Campaigns /\ DOMAIN run = Processes
      /\ \A c \in Campaigns : table[c] = [i \in {} |-> i]
  BY DEF Init
<1>5. ASSUME NEW c \in Campaigns PROVE Persisted(c)
  <2>1. run[c].pc = "idle" /\ run[c].ledger # << >>
    BY <1>2, <1>3 DEF Processes
  <2>2. DOMAIN table[c] = {}
    BY <1>4
  <2>3. RowsFrom(table[c], run[c].ledger)
    <3>1. DOMAIN table[c] \subseteq 0 .. 0 /\ 0 \in Nat
      BY <2>2
    <3> QED BY <2>2, <3>1 DEF RowsFrom
  <2> QED BY <1>4, <2>1, <2>2, <2>3 DEF Persisted
<1>6. 0 \in 0 .. MaxDamage
  BY BoundsAssumption
<1> QED BY Zenon, <1>3, <1>4, <1>5, <1>6 DEF LInv

LEMMA LedgerNext == LInv /\ [Next]_vars => LInv'
<1> SUFFICES ASSUME LInv, [Next]_vars PROVE LInv'
  OBVIOUS
<1>1. CASE UNCHANGED vars
  BY <1>1 DEF vars, LInv, Persisted, Processes
<1>2. CASE Done
  BY <1>2 DEF Done, vars, LInv, Persisted, Processes
<1>3. ASSUME NEW c \in Processes,
             \/ Execute(c) \/ Dispatch(c) \/ Observe(c) \/ PutExists(c) \/ PutCreate(c)
             \/ PutRename(c) \/ PutFails(c) \/ Finish(c)
             \/ Persist(c) \/ Crash(c) \/ Damage(c)
      PROVE  LInv'
  BY <1>3, LedgerControl, LedgerExecute, LedgerFinish, LedgerPersist, LedgerDamage
<1> QED BY <1>1, <1>2, <1>3 DEF Next

\* For any processes, requests and damage, every process has a valid chain of
\* events of known kinds in memory, a control point of execute and put, and at
\* most one intent that was allowed and not dispatched yet.
THEOREM BrokerTypes == Spec => []TypeOK
<1>1. LInv => TypeOK
  <2> SUFFICES ASSUME LInv PROVE TypeOK
    OBVIOUS
  <2>1. ASSUME NEW p \in Processes
        PROVE  /\ run[p].pc \in {"idle", "dispatch", "put", "ended", "crashed"}
               /\ run[p].tmp \in BOOLEAN /\ run[p].requests \in 0 .. MaxRequests
               /\ Cardinality(run[p].intent) <= 1 /\ verify(run[p].ledger)
               /\ \A e \in Range(run[p].ledger) : e.record.kind \in Kinds
    <3>1. Process(run[p])
      BY DEF LInv
    <3>2. Cardinality(run[p].intent) \in {0, 1}
      BY Zenon, <3>1, FS_EmptySet, FS_Singleton DEF Process
    <3>3. Cardinality(run[p].intent) <= 1
      BY <3>2
    <3>4. \A e \in Range(run[p].ledger) : e.record.kind \in Kinds
      BY Zenon, <3>1 DEF Process, Chain, Range
    <3> QED BY Zenon, <3>1, <3>3, <3>4 DEF Process, Chain
  <2> QED BY <2>1 DEF TypeOK, LInv
<1> QED BY <1>1, LedgerInit, LedgerNext, PTL DEF Spec

\* For any campaigns and any sequence of lost, moved and changed rows, what
\* load_ledger_for and load_ledger accept is the recorded ledger or a beginning
\* of it: a row keeps at most the hash of its entry, and with the hashes before
\* it that is enough to check the rest.
THEOREM VerifiedAlwaysRecorded == Spec => []VerifiedIsRecorded
<1>1. LInv => VerifiedIsRecorded
  <2> SUFFICES ASSUME LInv PROVE VerifiedIsRecorded
    OBVIOUS
  <2>1. ASSUME NEW c \in Campaigns
        PROVE  load_ledger_for(table[c]) \in Beginnings(run[c].ledger)
    <3>1. Chain(run[c].ledger) /\ RowsFrom(table[c], run[c].ledger)
      BY Zenon DEF LInv, Process, Persisted, Processes
    <3> QED BY <3>1, LoadPrefix
  <2>2. ASSUME load_ledger(table) # << >>
        PROVE  \E c \in Campaigns : /\ load_ledger(table) \in Beginnings(run[c].ledger)
                                    /\ \A x \in Campaigns \ {c} : DOMAIN table[x] = {}
    <3>1. PICK c \in OnlyCampaign(table) : OnlyCampaign(table) = {c}
      BY <2>2 DEF load_ledger
    <3>2. load_ledger(table) = load_ledger_for(table[c])
      BY <3>1 DEF load_ledger
    <3>3. c \in Campaigns /\ \A x \in Campaigns \ {c} : DOMAIN table[x] = {}
      BY <3>1 DEF OnlyCampaign, LInv
    <3> QED BY <2>1, <3>2, <3>3
  <2> QED BY <2>1, <2>2 DEF VerifiedIsRecorded
<1> QED BY <1>1, LedgerInit, LedgerNext, PTL DEF Spec

\* As long as no row goes bad, a campaign that ended finds its whole ledger in
\* the database and one that did not finds none of it, however many persist
\* into the same table: persist_ledger_for is one transaction on its own rows.
THEOREM PersistedAlwaysWhole == Spec => []PersistedIsWhole
<1>1. LInv => PersistedIsWhole
  <2> SUFFICES ASSUME LInv, damage = 0, NEW c \in Campaigns
               PROVE  load_ledger_for(table[c]) =
                        IF run[c].pc = "ended" THEN run[c].ledger ELSE << >>
    BY DEF PersistedIsWhole
  <2>1. Chain(run[c].ledger) /\ Persisted(c)
    BY DEF LInv, Process, Processes
  <2>2. CASE run[c].pc = "ended"
    BY <2>1, <2>2, LoadWhole DEF Persisted
  <2>3. CASE run[c].pc # "ended"
    BY <2>1, <2>3, LoadNothing DEF Persisted
  <2> QED BY <2>2, <2>3
<1> QED BY <1>1, LedgerInit, LedgerNext, PTL DEF Spec
=============================================================================
