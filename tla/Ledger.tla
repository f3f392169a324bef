-------------------------------- MODULE Ledger --------------------------------
(***************************************************************************)
(* The event ledger of a campaign (aros-evidence/ledger.rs) and its rows   *)
(* in the database (aros-store).  A hash is the tuple of what is hashed.   *)
(***************************************************************************)
EXTENDS Naturals, FiniteSets, Sequences, Functions

GENESIS == << >>

payload_digest(record) == <<record>>

entry_hash(previous, record, digests) == <<previous, record, digests>>

appendUnchained(entries, record, digests) ==
  Append(entries, [index |-> Len(entries), previous_hash |-> GENESIS,
                   event_hash |-> entry_hash(GENESIS, record, digests),
                   payload_digest |-> payload_digest(record),
                   digests |-> digests, record |-> record])

append(entries, record, digests) ==
  LET previous == IF entries = << >> THEN GENESIS ELSE entries[Len(entries)].event_hash IN
  Append(entries, [index |-> Len(entries), previous_hash |-> previous,
                   event_hash |-> entry_hash(previous, record, digests),
                   payload_digest |-> payload_digest(record),
                   digests |-> digests, record |-> record])

verifyUnchained(entries) ==
  \A i \in DOMAIN entries :
    LET e == entries[i] IN
    /\ e.payload_digest = payload_digest(e.record)
    /\ e.event_hash = entry_hash(e.previous_hash, e.record, e.digests)

verify(entries) ==
  \A i \in DOMAIN entries :
    LET e == entries[i] IN
    /\ e.index = i - 1
    /\ e.previous_hash = IF i = 1 THEN GENESIS ELSE entries[i - 1].event_hash
    /\ e.payload_digest = payload_digest(e.record)
    /\ e.event_hash = entry_hash(e.previous_hash, e.record, e.digests)

-----------------------------------------------------------------------------
\* A row of ledger_events: the entry as json, and three of its fields again.
Row(e) == [payload |-> e, event_hash |-> e.event_hash,
           previous_hash |-> e.previous_hash, payload_digest |-> e.payload_digest]

\* The rows of a campaign by idx.
RowsOf(entries) == [i \in {e.index : e \in Range(entries)} |-> Row(entries[i + 1])]

ColumnsAgree(row) ==
  /\ row.payload.event_hash = row.event_hash
  /\ row.payload.previous_hash = row.previous_hash
  /\ row.payload.payload_digest = row.payload_digest

\* ORDER BY idx.
Stored(rows) ==
  LET ids    == DOMAIN rows
      Nth(n) == CHOOSE i \in ids : Cardinality({j \in ids : j < i}) = n - 1 IN
  [n \in 1 .. Cardinality(ids) |-> rows[Nth(n)].payload]

\* load_ledger_for: no entries means an error.
load_ledger_for(rows) ==
  IF /\ DOMAIN rows # {} /\ \A i \in DOMAIN rows : ColumnsAgree(rows[i])
     /\ verify(Stored(rows))
  THEN Stored(rows) ELSE << >>

\* load_ledger, without a campaign: there must be exactly one with rows.
OnlyCampaign(table) == {c \in DOMAIN table : DOMAIN table[c] # {}}

load_ledger(table) ==
  LET ids == OnlyCampaign(table) IN
  IF \E c \in ids : ids = {c}
  THEN load_ledger_for(table[CHOOSE c \in ids : TRUE]) ELSE << >>
=============================================================================
