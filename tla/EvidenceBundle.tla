---------------------------- MODULE EvidenceBundle ----------------------------
(***************************************************************************)
(* What a work directory promises a reader of it, whatever the runs that   *)
(* fill it do and wherever they are cut off: a campaign's verdict and its  *)
(* log are each written once and never change, and the statement (the      *)
(* certificate) is only ever made about a campaign whose verdict and log   *)
(* are both already durable, and says what they say.                       *)
(***************************************************************************)
CONSTANTS Campaigns, States, Logs, NoValue, NoLog

VARIABLES row, log, statement

vars == <<row, log, statement>>

Init ==
  /\ row = [c \in Campaigns |-> NoValue]
  /\ log = [c \in Campaigns |-> NoLog]
  /\ statement = NoValue

Record(c) ==
  row[c] = NoValue /\ row'[c] \in States /\ row' = [row EXCEPT ![c] = row'[c]]
Log(c) ==
  log[c] = NoLog /\ log'[c] \in Logs /\ log' = [log EXCEPT ![c] = log'[c]]

\* A verdict, a log, or both at once.
Write(c) ==
  /\ \/ Record(c) /\ UNCHANGED log
     \/ Log(c) /\ UNCHANGED row
     \/ Record(c) /\ Log(c)
  /\ UNCHANGED statement

Withdraw == statement' = NoValue /\ UNCHANGED <<row, log>>

Certify(c) ==
  /\ statement = NoValue /\ row[c] # NoValue /\ log[c] # NoLog
  /\ statement' = [campaign |-> c, state |-> row[c], log |-> log[c]]
  /\ UNCHANGED <<row, log>>

Next == Withdraw \/ \E c \in Campaigns : Write(c) \/ Certify(c)

Spec == Init /\ [][Next]_vars
=============================================================================
