----------------------------- MODULE DaemonProofs -----------------------------
(***************************************************************************)
(* Proofs about the serving daemon: its types, its one story of every      *)
(* intent, the order of its two mutexes and its counters, for any clients  *)
(* and frames.                                                             *)
(***************************************************************************)
EXTENDS Daemon, FiniteSetTheorems, TLAPS

\* The results in T and the artifacts in D are of frames before n.
Past(T, D, n) ==
  /\ \A t \in T : t.id < n
  /\ \A id \in D \cap Frames : id < n

Results == turns \cup Written

\* The loop takes the frames in the order they were sent, and tells of each one
\* what the broker did with it.
Order ==
  /\ boot # "serving" => loop.pc = "off"
  /\ \A i \in DOMAIN up : loop.id < up[i].id /\ up[i].id <= sent
       /\ Past(Results, cas, up[i].id)
  /\ \A i, j \in DOMAIN up : i < j => up[i].id < up[j].id
  /\ loop.id <= sent /\ Past(Results, cas, sent + 1)
  /\ loop.id = 0 <=> loop.pc \in {"off", "lock", "read", "ended"}
  /\ loop.pc \in {"convert", "lab"} => Past(Results, cas, loop.id)
  /\ loop.pc = "persist" => \A t \in turns : t.id < loop.id
  /\ loop.pc \in {"persist", "count", "write"} =>
       /\ \A t \in Written : t.id < loop.id
       /\ loop.decision = "ALLOW" <=> loop.id \in cas

Story ==
  /\ \A t \in Results : t.decision = "ALLOW" <=> t.id \in cas
  /\ \A id \in cas : <<"ToolAllowed", id>> \in events

\* What the broker did for a client shows in where its handler is.
Replies ==
  \A c \in Clients :
    /\ c \in cas =>
         client[c] \in {"receipt", "uncounted", "counted", "answered", "unhandled"}
    /\ client[c] = "receipt" => (reply[c] = "ALLOW" <=> c \in cas)

IInv == TypeOK /\ LocksInOrder /\ Order /\ Story /\ Replies

-----------------------------------------------------------------------------
(***************************************************************************)
(* A mutex as a queue of tasks without repetition.                         *)
(***************************************************************************)
Tasks == Clients \cup {"loop"}

Queue(s) == s \in Seq(Tasks) /\ IsInjective(s)

\* A task that asks for a mutex comes last and displaces nobody.
LEMMA QueueAppend ==
  ASSUME NEW s, Queue(s), NEW x \in Tasks, x \notin Range(s)
  PROVE  /\ Queue(Append(s, x)) /\ Range(Append(s, x)) = Range(s) \cup {x}
         /\ \A y : Holds(y, s) => Holds(y, Append(s, x))
<1> DEFINE t == Append(s, x)
<1>1. /\ t \in Seq(Tasks) /\ DOMAIN t = 1 .. Len(s) + 1 /\ DOMAIN s = 1 .. Len(s)
      /\ Len(s) \in Nat /\ t[Len(s) + 1] = x /\ \A i \in 1 .. Len(s) : t[i] = s[i]
  BY DEF Queue
<1>2. \A i \in 1 .. Len(s) : s[i] # x
  BY <1>1 DEF Range
<1>3. Range(t) = Range(s) \cup {x}
  BY <1>1 DEF Range
<1>4. IsInjective(t)
  BY <1>1, <1>2 DEF IsInjective, Queue
<1>5. ASSUME NEW y, Holds(y, s) PROVE Holds(y, t)
  <2>1. t # << >> /\ Len(s) >= 1 /\ Head(t) = t[1] /\ Head(s) = s[1]
    BY <1>1, <1>5 DEF Holds, Queue
  <2> QED
    BY <1>1, <1>5, <2>1 DEF Holds
<1> QED
  BY <1>1, <1>3, <1>4, <1>5 DEF Queue

\* The owner that leaves makes way for the next.
LEMMA QueueTail ==
  ASSUME NEW s, Queue(s), s # << >>
  PROVE  /\ Queue(Tail(s)) /\ Range(Tail(s)) = Range(s) \ {Head(s)}
         /\ Head(s) \in Range(s)
<1> DEFINE t == Tail(s)
<1>1. /\ t \in Seq(Tasks) /\ DOMAIN t = 1 .. Len(s) - 1 /\ DOMAIN s = 1 .. Len(s)
      /\ Len(s) \in Nat \ {0} /\ Head(s) = s[1] /\ \A i \in DOMAIN t : t[i] = s[i + 1]
  BY DEF Queue
<1> HIDE DEF t
<1>2. \A i, j \in DOMAIN s : s[i] = s[j] => i = j
  BY DEF Queue, IsInjective
<1>3. IsInjective(t)
  BY <1>1, <1>2 DEF IsInjective
<1>4. Range(t) \subseteq Range(s) \ {Head(s)}
  BY <1>1, <1>2 DEF Range
<1>5. ASSUME NEW i \in DOMAIN s, s[i] # s[1] PROVE s[i] \in Range(t)
  <2>1. i - 1 \in DOMAIN t /\ t[i - 1] = s[i]
    BY <1>1, <1>5
  <2> QED
    BY <2>1 DEF Range
<1>6. Head(s) \in Range(s)
  BY <1>1 DEF Range
<1>7. Range(s) \ {Head(s)} \subseteq Range(t)
  BY <1>1, <1>5 DEF Range
<1> QED
  BY <1>1, <1>3, <1>4, <1>6, <1>7 DEF Queue, t

\* One place removed from a sequence: what stays, and where.
LEMMA RemoveAtPlace ==
  ASSUME NEW S, NEW s \in Seq(S), NEW k \in DOMAIN s
  PROVE  /\ RemoveAt(s, k) \in Seq(S) /\ Len(RemoveAt(s, k)) = Len(s) - 1
         /\ \A i \in 1 .. Len(s) - 1 :
              RemoveAt(s, k)[i] = IF i < k THEN s[i] ELSE s[i + 1]
<1> DEFINE a == SubSeq(s, 1, k - 1)
           b == SubSeq(s, k + 1, Len(s))
<1>1. Len(s) \in Nat /\ k \in 1 .. Len(s) /\ \A i \in 1 .. Len(s) : s[i] \in S
  OBVIOUS
<1>2. /\ a \in Seq(S) /\ Len(a) = k - 1 /\ \A i \in 1 .. k - 1 : a[i] = s[i]
  BY <1>1
<1>3. /\ b \in Seq(S) /\ Len(b) = Len(s) - k
      /\ \A i \in 1 .. Len(s) - k : b[i] = s[k + i]
  BY <1>1
<1>4. RemoveAt(s, k) = a \o b
  BY DEF RemoveAt
<1> HIDE DEF a, b
<1>5. /\ a \o b \in Seq(S) /\ Len(a \o b) = Len(a) + Len(b)
      /\ \A i \in 1 .. Len(a) + Len(b) :
           (a \o b)[i] = IF i <= Len(a) THEN a[i] ELSE b[i - Len(a)]
  BY SMTT(30), <1>2, <1>3
<1> DEFINE t == a \o b
<1>6. t \in Seq(S) /\ Len(t) = Len(a) + Len(b)
      /\ \A i \in 1 .. Len(a) + Len(b) :
           t[i] = IF i <= Len(a) THEN a[i] ELSE b[i - Len(a)]
  BY <1>5
<1>7. RemoveAt(s, k) = t
  BY <1>4
<1> HIDE DEF t
<1>8. ASSUME NEW i \in 1 .. Len(s) - 1 PROVE t[i] = IF i < k THEN s[i] ELSE s[i + 1]
  <2>1. CASE i < k
    <3>1. i \in 1 .. Len(a) + Len(b) /\ i <= Len(a) /\ i \in 1 .. k - 1
      BY <1>1, <1>2, <1>3, <2>1
    <3>2. t[i] = a[i]
      BY <1>6, <3>1
    <3> QED
      BY <1>2, <2>1, <3>1, <3>2
  <2>2. CASE ~ (i < k)
    <3>1. i - (k - 1) \in 1 .. Len(s) - k /\ k + (i - (k - 1)) = i + 1
      BY <1>1, <2>2
    <3>2. i \in 1 .. Len(a) + Len(b) /\ ~ (i <= Len(a)) /\ Len(a) = k - 1
      BY <1>1, <1>2, <1>3, <2>2
    <3>3. t[i] = b[i - Len(a)]
      BY <1>6, <3>2
    <3> QED
      BY <1>3, <2>2, <3>1, <3>2, <3>3
  <2> QED
    BY <2>1, <2>2
<1>9. Len(t) = Len(s) - 1
  BY <1>1, <1>2, <1>3, <1>6
<1> QED
  BY <1>6, <1>7, <1>8, <1>9

\* A task that is dropped loses its place, and only it does.
LEMMA QueueWithout ==
  ASSUME NEW s, Queue(s), NEW x
  PROVE  /\ Queue(Without(x, s)) /\ Range(Without(x, s)) = Range(s) \ {x}
         /\ \A y : y # x /\ Holds(y, s) => Holds(y, Without(x, s))
<1>1. CASE ~ \E i \in DOMAIN s : s[i] = x
  BY <1>1 DEF Without, Range
<1>2. CASE \E i \in DOMAIN s : s[i] = x
  <2> DEFINE k == CHOOSE i \in DOMAIN s : s[i] = x
             t == RemoveAt(s, k)
  <2>1. k \in DOMAIN s /\ s[k] = x
    BY <1>2
  <2>2. Without(x, s) = t
    BY <1>2 DEF Without, Range
  <2> HIDE DEF k
  <2>3. s \in Seq(Tasks)
    BY DEF Queue
  <2>4. /\ t \in Seq(Tasks) /\ Len(t) = Len(s) - 1
        /\ \A i \in 1 .. Len(s) - 1 : t[i] = IF i < k THEN s[i] ELSE s[i + 1]
    BY <2>1, <2>3, RemoveAtPlace, Zenon
  <2> HIDE DEF t
  <2>5. /\ Len(s) \in Nat /\ DOMAIN s = 1 .. Len(s) /\ DOMAIN t = 1 .. Len(s) - 1
        /\ k \in 1 .. Len(s)
    BY <2>1, <2>3, <2>4
  <2>6. \A i, j \in DOMAIN s : s[i] = s[j] => i = j
    BY DEF Queue, IsInjective
  <2>7. IsInjective(t)
    <3>1. ASSUME NEW i \in DOMAIN t
          PROVE  \E m \in DOMAIN s : t[i] = s[m] /\ m = IF i < k THEN i ELSE i + 1
      <4>1. CASE i < k
        BY <2>4, <2>5, <4>1
      <4>2. CASE ~ (i < k)
        BY <2>4, <2>5, <4>2
      <4> QED
        BY <4>1, <4>2
    <3>2. ASSUME NEW i \in DOMAIN t, NEW j \in DOMAIN t, t[i] = t[j] PROVE i = j
      <4>1. PICK m \in DOMAIN s : t[i] = s[m] /\ m = IF i < k THEN i ELSE i + 1
        BY <3>1
      <4>2. PICK n \in DOMAIN s : t[j] = s[n] /\ n = IF j < k THEN j ELSE j + 1
        BY <3>1
      <4>3. m = n
        BY <2>6, <3>2, <4>1, <4>2, Zenon
      <4> QED
        BY <2>5, <4>1, <4>2, <4>3
    <3> QED
      BY <3>2 DEF IsInjective
  <2>8. Range(t) \subseteq Range(s) \ {x}
    <3> SUFFICES ASSUME NEW i \in DOMAIN t PROVE t[i] \in Range(s) /\ t[i] # x
      BY DEF Range
    <3> QED
      BY <2>1, <2>4, <2>5, <2>6 DEF Range
  <2>9. Range(s) \ {x} \subseteq Range(t)
    <3> SUFFICES ASSUME NEW i \in DOMAIN s, s[i] # x PROVE s[i] \in Range(t)
      BY DEF Range
    <3>1. CASE i < k
      BY <2>4, <2>5, <3>1 DEF Range
    <3>2. CASE i > k
      <4>1. i - 1 \in DOMAIN t /\ t[i - 1] = s[i]
        BY <2>4, <2>5, <3>2
      <4> QED
        BY <4>1 DEF Range
    <3> QED
      BY <2>1, <2>5, <3>1, <3>2
  <2>10. ASSUME NEW y, y # x, Holds(y, s) PROVE Holds(y, t)
    <3>1. s # << >> /\ s[1] = y
      BY <2>3, <2>10 DEF Holds
    <3>2. Len(s) >= 1 /\ k # 1
      BY <2>1, <2>3, <2>5, <2>10, <3>1
    <3>3. 1 \in 1 .. Len(s) - 1 /\ 1 < k
      BY <2>5, <3>2
    <3>4. t[1] = y /\ t # << >>
      BY <2>4, <2>5, <3>1, <3>3
    <3> QED
      BY <2>4, <3>4 DEF Holds
  <2> QED
    BY <2>2, <2>4, <2>7, <2>8, <2>9, <2>10 DEF Queue
<1> QED
  BY <1>1, <1>2

-----------------------------------------------------------------------------
(***************************************************************************)
(* The sockets, and the loop between two frames.                           *)
(***************************************************************************)
\* One more element at the end of a sequence.
LEMMA AppendSet ==
  ASSUME NEW S, NEW s \in Seq(S), NEW e \in S
  PROVE  /\ Append(s, e) \in Seq(S) /\ Range(Append(s, e)) = Range(s) \cup {e}
         /\ DOMAIN Append(s, e) = 1 .. Len(s) + 1 /\ DOMAIN s = 1 .. Len(s)
         /\ Len(s) \in Nat /\ Append(s, e)[Len(s) + 1] = e
         /\ \A i \in 1 .. Len(s) : Append(s, e)[i] = s[i]
<1> DEFINE t == Append(s, e)
<1>1. /\ t \in Seq(S) /\ DOMAIN t = 1 .. Len(s) + 1 /\ DOMAIN s = 1 .. Len(s)
      /\ Len(s) \in Nat /\ t[Len(s) + 1] = e /\ \A i \in 1 .. Len(s) : t[i] = s[i]
  OBVIOUS
<1>2. Range(t) = Range(s) \cup {e}
  BY <1>1 DEF Range
<1> QED
  BY <1>1, <1>2

\* The first element of a sequence taken away.
LEMMA TailSet ==
  ASSUME NEW S, NEW s \in Seq(S), s # << >>
  PROVE  /\ Tail(s) \in Seq(S) /\ Head(s) \in S /\ Head(s) = s[1] /\ 1 \in DOMAIN s
         /\ Range(s) = Range(Tail(s)) \cup {Head(s)}
         /\ \A i \in DOMAIN Tail(s) : i + 1 \in DOMAIN s /\ Tail(s)[i] = s[i + 1]
         /\ DOMAIN s \subseteq Nat \ {0} /\ DOMAIN Tail(s) \subseteq Nat \ {0}
<1> DEFINE t == Tail(s)
<1>1. /\ t \in Seq(S) /\ DOMAIN t = 1 .. Len(s) - 1 /\ DOMAIN s = 1 .. Len(s)
      /\ Len(s) \in Nat \ {0} /\ Head(s) = s[1] /\ \A i \in DOMAIN t : t[i] = s[i + 1]
  OBVIOUS
<1> HIDE DEF t
<1>2. ASSUME NEW i \in DOMAIN s, i # 1 PROVE s[i] \in Range(t)
  <2>1. i - 1 \in DOMAIN t /\ t[i - 1] = s[i]
    BY <1>1, <1>2
  <2> QED
    BY <2>1 DEF Range
<1>3. Range(s) \subseteq Range(t) \cup {Head(s)}
  BY <1>1, <1>2 DEF Range
<1>4. Range(t) \cup {Head(s)} \subseteq Range(s)
  BY <1>1 DEF Range
<1>5. Head(s) \in S /\ 1 \in DOMAIN s /\ DOMAIN s \subseteq Nat \ {0}
  BY <1>1
<1>6. /\ \A i \in DOMAIN t : i + 1 \in DOMAIN s /\ t[i] = s[i + 1]
      /\ DOMAIN t \subseteq Nat \ {0}
  BY <1>1
<1> QED
  BY <1>1, <1>3, <1>4, <1>5, <1>6 DEF t

\* The fields of the loop's local state between two frames.
LEMMA AtFields ==
  ASSUME NEW pc
  PROVE  /\ At(pc) \in [pc : {pc}, id : {0}, kind : {"skipped"}, decision : {"DENY"}]
         /\ At(pc).pc = pc /\ At(pc).id = 0
         /\ pc \in {"off", "lock", "ended"} => At(pc) \in LoopState
BY DEF At, LoopState, Kinds, Decisions

\* The acknowledgement of the Hello is no result.
LEMMA HelloIsNoTurn == HelloAck \notin Turn
BY FramesAssumption DEF HelloAck, Turn, Frames

\* A result written to the socket, and the acknowledgement.
LEMMA WrittenGrows ==
  ASSUME TypeOK, UNCHANGED received,
         NEW f \in Turn \cup {HelloAck}, down' = Append(down, f)
  PROVE  /\ down' \in Seq(Turn \cup {HelloAck})
         /\ Written' = Written \cup ({f} \ {HelloAck})
<1> DEFINE S == Turn \cup {HelloAck}
<1>1. down \in Seq(S) /\ f \in S
  BY DEF TypeOK
<1> HIDE DEF S
<1>2. Append(down, f) \in Seq(S) /\ Range(Append(down, f)) = Range(down) \cup {f}
  BY <1>1, AppendSet
<1>3. down' \in Seq(S) /\ Range(down') = Range(down) \cup {f}
  BY <1>2, Zenon
<1> QED
  BY <1>3 DEF Written, S

\* What the worker reads was written before.
LEMMA WrittenMoves ==
  ASSUME TypeOK, Receive
  PROVE  /\ down' \in Seq(Turn \cup {HelloAck}) /\ received' \subseteq Turn
         /\ Written' = Written
<1> DEFINE S == Turn \cup {HelloAck}
<1>1. down \in Seq(S) /\ down # << >> /\ down' = Tail(down)
  BY DEF TypeOK, Receive
<1> HIDE DEF S
<1>2. down' \in Seq(S) /\ Head(down) \in S /\ Range(down) = Range(down') \cup {Head(down)}
  BY <1>1, TailSet, Zenon
<1>3. received' = received \cup ({Head(down)} \ {HelloAck}) /\ received \subseteq Turn
  BY DEF TypeOK, Receive
<1> QED
  BY <1>2, <1>3 DEF Written, S

\* The results written are turns.
LEMMA WrittenTurns ==
  ASSUME TypeOK
  PROVE  Written \subseteq Turn
<1>1. Range(down) \subseteq Turn \cup {HelloAck}
  BY DEF TypeOK, Range
<1> QED
  BY <1>1 DEF Written, TypeOK

-----------------------------------------------------------------------------
(***************************************************************************)
(* Steps that do not touch what a conjunct is about.                       *)
(***************************************************************************)
\* The order of the frames is about the loop, the socket and what is stored.
LEMMA OrderFrame ==
  ASSUME Order, Story, UNCHANGED <<boot, loop, up, sent, turns, Written, cas, events>>
  PROVE  Order' /\ Story'
BY DEF Order, Story, Results, Past

\* The mutexes are about the control points of the tasks.
LEMMA LocksFrame ==
  ASSUME LocksInOrder, UNCHANGED <<supervisor, lab, loop, client>>
  PROVE  LocksInOrder'
BY DEF LocksInOrder, AtSupervisor, AtLab, Holds

\* The replies are about the handlers and the artifacts.
LEMMA RepliesFrame ==
  ASSUME Replies, UNCHANGED <<cas, client, reply>>
  PROVE  Replies'
BY DEF Replies

-----------------------------------------------------------------------------
(***************************************************************************)
(* main before it serves, and the worker.                                  *)
(***************************************************************************)
\* Init establishes the invariant.
LEMMA InitInvariant ==
  ASSUME Init
  PROVE  IInv
<1>1. Range(supervisor) = {} /\ Range(lab) = {} /\ Written = {}
  BY DEF Init, Range, Written
<1>2. Answered = {} /\ AtSupervisor = {} /\ AtLab = {}
  BY AtFields DEF Init, Answered, AtSupervisor, AtLab
<1>3. TypeOK
  <2>1. At("off") \in LoopState
    BY AtFields
  <2> QED
    BY <2>1, FramesAssumption DEF Init, TypeOK, Decisions
<1>4. LocksInOrder
  BY <1>1, <1>2 DEF LocksInOrder, Init, IsInjective
<1>5. Order /\ Story /\ Replies
  BY <1>1, AtFields DEF Order, Story, Replies, Init, Results, Past
<1> QED
  BY <1>3, <1>4, <1>5 DEF IInv

\* Where the loop may be, and which task it is.
LEMMA LoopFacts ==
  ASSUME IInv
  PROVE  /\ loop \in LoopState /\ loop.id \in Frames \cup {0} /\ loop.decision \in Decisions
         /\ Queue(supervisor) /\ Queue(lab)
         /\ "loop" \in Tasks /\ "loop" \notin Clients
         /\ "loop" \in Range(supervisor) <=> loop.pc \in {"read", "write"}
         /\ "loop" \in Range(lab) <=> loop.pc = "lab"
         /\ Frames \subseteq Nat \ {0} /\ Frames \cap Clients = {}
         /\ loop.id \in Nat /\ sent \in Nat /\ loop.id <= sent /\ loop.id < sent + 1
         /\ loop.id \notin Clients
<1>1. "loop" \in Tasks /\ "loop" \notin Clients
  BY ClientsAssumption DEF Tasks
<1>2. Queue(supervisor) /\ Queue(lab)
  BY DEF IInv, TypeOK, LocksInOrder, Queue, Tasks
<1>3. Range(supervisor) = AtSupervisor /\ Range(lab) = AtLab
  BY DEF IInv, LocksInOrder
<1>4. "loop" \in Range(supervisor) <=> loop.pc \in {"read", "write"}
  BY <1>1, <1>3 DEF AtSupervisor
<1>5. "loop" \in Range(lab) <=> loop.pc = "lab"
  BY <1>1, <1>3 DEF AtLab
<1>6. Frames \subseteq Nat \ {0} /\ Frames \cap Clients = {}
  BY ClientsAssumption, FramesAssumption DEF Frames
<1>7. loop \in LoopState /\ loop.id <= sent
  BY DEF IInv, TypeOK, Order
<1>8. loop.id \in Frames \cup {0} /\ loop.decision \in Decisions
  BY <1>7 DEF LoopState
<1>9. sent \in 0 .. MaxFrames
  BY DEF IInv, TypeOK
<1>10. loop.id \in Nat
  <2>1. 0 \in Nat
    OBVIOUS
  <2> QED
    BY <1>6, <1>8, <2>1, Zenon
<1>11. sent \in Nat
  BY <1>9, FramesAssumption
<1>12. loop.id < sent + 1
  BY <1>7, <1>10, <1>11
<1>13. loop.id \notin Clients
  <2>1. 0 \notin Clients
    BY ClientsAssumption, FramesAssumption
  <2> QED
    BY <1>6, <1>8, <2>1
<1> QED
  BY <1>1, <1>2, <1>4, <1>5, <1>6, <1>7, <1>8, <1>10, <1>11, <1>12, <1>13

\* Steps of main and of the worker that change only where they are.
LEMMA AsideStep ==
  ASSUME IInv, UNCHANGED <<shared, loop, http, sent, up, down, received>>,
         boot' \in {"launch", "hello", "serving"}, boot = "serving" => boot' = "serving",
         worker' \in {"none", "connecting", "greeting", "idle", "proposing", "waiting",
                     "hung", "exited"}
  PROVE  IInv'
<1>1. TypeOK'
  BY DEF IInv, TypeOK, shared, http
<1>2. UNCHANGED Written
  BY DEF Written
<1>3. Order' /\ Story'
  BY <1>2 DEF IInv, Order, Story, Results, Past, shared
<1>4. LocksInOrder' /\ Replies'
  BY <1>2, LocksFrame, RepliesFrame DEF IInv, shared, http
<1> QED
  BY <1>1, <1>3, <1>4 DEF IInv

\* accept_hello: the loop starts, and nothing was read yet.
LEMMA AcceptHelloStep ==
  ASSUME IInv, AcceptHello
  PROVE  IInv'
<1> USE DEF AcceptHello
<1>1. loop.pc = "off" /\ loop'.pc = "lock" /\ loop'.id = 0 /\ loop.id = 0
  BY AtFields DEF IInv, Order
<1>2. down' \in Seq(Turn \cup {HelloAck}) /\ Written' = Written
  <2>1. HelloAck \in Turn \cup {HelloAck}
    OBVIOUS
  <2>2. TypeOK /\ UNCHANGED received /\ down' = Append(down, HelloAck)
    BY DEF IInv
  <2>3. Written' = Written \cup ({HelloAck} \ {HelloAck})
    BY <2>1, <2>2, WrittenGrows, Zenon
  <2> QED
    BY <2>1, <2>2, <2>3, WrittenGrows
<1>3. TypeOK'
  <2>1. loop' \in LoopState
    BY AtFields
  <2> QED
    BY <1>2, <2>1 DEF IInv, TypeOK, shared, http
<1>4. Order' /\ Story'
  BY <1>1, <1>2 DEF IInv, Order, Story, Results, Past, shared
<1>5. LocksInOrder' /\ Replies'
  BY <1>1, RepliesFrame DEF IInv, LocksInOrder, AtSupervisor, AtLab, Holds, shared, http
<1> QED
  BY <1>3, <1>4, <1>5 DEF IInv

\* The worker reads a result: it moves from the socket to the worker.
LEMMA ReceiveStep ==
  ASSUME IInv, Receive
  PROVE  IInv'
<1>1. /\ down' \in Seq(Turn \cup {HelloAck}) /\ received' \subseteq Turn
      /\ Written' = Written
  BY WrittenMoves DEF IInv
<1>2. UNCHANGED <<boot, shared, loop, http, sent, up>>
  BY DEF Receive, daemon
<1>3. TypeOK'
  BY <1>1, <1>2 DEF IInv, TypeOK, Receive, shared, http
<1>4. Order' /\ Story' /\ LocksInOrder' /\ Replies'
  BY <1>1, <1>2, OrderFrame, LocksFrame, RepliesFrame DEF IInv, shared, http
<1> QED
  BY <1>3, <1>4 DEF IInv

\* A frame is sent: it is later than everything that is known.
LEMMA SendStep ==
  ASSUME IInv, NEW kind \in Kinds, sent < MaxFrames, sent' = sent + 1,
         up' = Append(up, [kind |-> kind, id |-> sent + 1]),
         worker' \in {"waiting", worker}, UNCHANGED <<daemon, down, received>>
  PROVE  IInv'
<1> DEFINE f == [kind |-> kind, id |-> sent + 1]
<1>1. sent \in Nat /\ sent + 1 \in Frames /\ sent' \in 0 .. MaxFrames
  BY FramesAssumption DEF IInv, TypeOK, Frames
<1>2. f \in Frame /\ f.id = sent + 1 /\ up' = Append(up, f) /\ up \in Seq(Frame)
  BY <1>1 DEF IInv, TypeOK, Frame
<1>3. UNCHANGED <<boot, shared, loop, http, Written>>
  BY DEF daemon, Written
<1> HIDE DEF f
<1>4. /\ up' \in Seq(Frame) /\ DOMAIN up' = 1 .. Len(up) + 1 /\ DOMAIN up = 1 .. Len(up)
      /\ Len(up) \in Nat /\ up'[Len(up) + 1] = f /\ \A i \in DOMAIN up : up'[i] = up[i]
  BY <1>2, AppendSet
<1>5. TypeOK'
  BY <1>1, <1>3, <1>4 DEF IInv, TypeOK, shared, http
<1>6. Order' /\ Story'
  <2>1. UNCHANGED <<boot, loop, turns, Written, Results, cas, events>>
    BY <1>3 DEF Results, shared
  <2>2. loop.id \in Nat /\ loop.id <= sent /\ Past(Results, cas, sent + 1)
    BY LoopFacts DEF IInv, Order
  <2>3. Past(Results, cas, sent' + 1)
    <3>1. \A t \in Results : t.id \in Nat
      BY WrittenTurns, LoopFacts DEF IInv, TypeOK, Turn, Results
    <3> QED
      BY <1>1, <2>2, <3>1 DEF Past, Frames
  <2>4. ASSUME NEW i \in DOMAIN up
        PROVE  /\ up[i].id \in Nat /\ loop.id < up[i].id /\ up[i].id <= sent
               /\ Past(Results, cas, up[i].id) /\ up'[i] = up[i]
    <3>1. up[i] \in Frame
      BY <1>2
    <3>2. up[i].id \in Nat
      BY <3>1, FramesAssumption DEF Frame, Frames
    <3> QED
      BY <1>4, <3>2 DEF IInv, Order
  <2>5. ASSUME NEW i \in DOMAIN up'
        PROVE  /\ loop.id < up'[i].id /\ up'[i].id <= sent'
               /\ Past(Results, cas, up'[i].id)
    <3>1. CASE i \in DOMAIN up
      BY <1>1, <2>4, <3>1
    <3>2. CASE i = Len(up) + 1
      BY <1>1, <1>2, <1>4, <2>2, <3>2
    <3> QED
      BY <1>4, <3>1, <3>2
  <2>6. ASSUME NEW i \in DOMAIN up', NEW j \in DOMAIN up', i < j
        PROVE  up'[i].id < up'[j].id
    <3>1. i \in DOMAIN up
      BY <1>4, <2>6
    <3>2. j \in DOMAIN up \/ up'[j].id = sent + 1
      BY <1>2, <1>4
    <3> QED
      BY <1>1, <1>4, <2>4, <2>6, <3>1, <3>2 DEF IInv, Order
  <2>7. loop.id <= sent'
    BY <1>1, <2>2
  <2> QED
    BY <2>1, <2>3, <2>5, <2>6, <2>7 DEF IInv, Order, Story
<1>7. LocksInOrder' /\ Replies'
  BY <1>3, LocksFrame, RepliesFrame DEF IInv, shared, http
<1> QED
  BY <1>5, <1>6, <1>7 DEF IInv

-----------------------------------------------------------------------------
(***************************************************************************)
(* handle_worker_intents.                                                  *)
(***************************************************************************)
\* The loop moves on with the frame in hand.
LEMMA LoopMoves ==
  ASSUME IInv, NEW pc \in {"read", "lab", "count", "write", "handled"},
         loop' = [loop EXCEPT !.pc = pc]
  PROVE  /\ loop' \in LoopState /\ loop'.pc = pc /\ loop'.id = loop.id
         /\ loop'.decision = loop.decision
BY LoopFacts DEF LoopState

\* The loop gets the answer for the frame in hand.
LEMMA LoopAnswered ==
  ASSUME IInv, NEW decision \in Decisions,
         loop' = [loop EXCEPT !.pc = "persist", !.decision = decision]
  PROVE  /\ loop' \in LoopState /\ loop'.pc = "persist" /\ loop'.id = loop.id
         /\ loop'.decision = decision
BY Zenon, LoopFacts DEF LoopState

\* The loop asks for the supervisor.
LEMMA LoopLockStep ==
  ASSUME IInv, LoopLock
  PROVE  IInv'
<1>1. /\ loop.pc = "lock" /\ loop' = [loop EXCEPT !.pc = "read"]
      /\ supervisor' = Append(supervisor, "loop")
      /\ UNCHANGED <<boot, lab, handled, executed, turns, outcomes, events, cas, http, remote>>
  BY DEF LoopLock
<1>2. loop' \in LoopState /\ loop'.pc = "read" /\ loop'.id = loop.id
  BY <1>1, LoopMoves
<1>3. UNCHANGED <<Written, Results>>
  BY <1>1 DEF Written, Results, remote
<1>4. /\ Queue(supervisor') /\ Range(supervisor') = Range(supervisor) \cup {"loop"}
      /\ \A y : Holds(y, supervisor) => Holds(y, supervisor')
  BY <1>1, LoopFacts, QueueAppend
<1>5. TypeOK'
  BY <1>1, <1>2, <1>4 DEF IInv, TypeOK, http, remote, Queue, Tasks
<1>6. LocksInOrder'
  BY <1>1, <1>2, <1>4 DEF IInv, LocksInOrder, AtSupervisor, AtLab, Queue, http
<1>7. Order' /\ Story'
  BY <1>1, <1>2, <1>3 DEF IInv, Order, Story, remote
<1>8. Replies'
  BY <1>1, RepliesFrame DEF IInv, http
<1> QED
  BY <1>5, <1>6, <1>7, <1>8 DEF IInv

\* The owner of the supervisor that is the loop: nobody reports, and it goes.
LEMMA LoopReleases ==
  ASSUME IInv, Holds("loop", supervisor), supervisor' = Tail(supervisor)
  PROVE  /\ Queue(supervisor') /\ Range(supervisor') = Range(supervisor) \ {"loop"}
         /\ \A c \in Clients : client[c] # "report"
<1>1. supervisor # << >> /\ Head(supervisor) = "loop"
  BY DEF Holds
<1>2. Queue(supervisor') /\ Range(supervisor') = Range(supervisor) \ {"loop"}
  BY <1>1, LoopFacts, QueueTail
<1>3. ASSUME NEW c \in Clients, client[c] = "report" PROVE FALSE
  BY <1>1, <1>3, LoopFacts DEF IInv, LocksInOrder, Holds
<1> QED
  BY <1>2, <1>3

LEMMA LoopReleasesInOrder ==
  ASSUME IInv, loop.pc \in {"read", "write"}, loop'.pc \notin {"read", "write", "lab"},
         Queue(supervisor'), Range(supervisor') = Range(supervisor) \ {"loop"},
         \A c \in Clients : client[c] # "report", UNCHANGED <<lab, http>>
  PROVE  LocksInOrder'
<1>1. UNCHANGED client /\ "loop" \notin Clients
  BY LoopFacts DEF http
<1>2. Range(supervisor) = AtSupervisor /\ Range(lab) = AtLab /\ IsInjective(lab)
  BY DEF IInv, LocksInOrder
<1>3. Range(supervisor') = AtSupervisor'
  BY <1>1, <1>2 DEF AtSupervisor
<1>4. Range(lab') = AtLab'
  BY <1>1, <1>2 DEF AtLab
<1> QED
  BY <1>1, <1>2, <1>3, <1>4 DEF LocksInOrder, Queue

\* The loop gives the supervisor back and has no result to tell.
LEMMA LoopEndsStep ==
  ASSUME IInv, loop.pc \in {"read", "write"}, Holds("loop", supervisor),
         supervisor' = Tail(supervisor), NEW pc \in {"lock", "ended"}, loop' = At(pc),
         up' \in Seq(Frame), \A i \in DOMAIN up' : 0 < up'[i].id /\ up'[i].id <= sent
                              /\ Past(Results, cas, up'[i].id),
         \A i, j \in DOMAIN up' : i < j => up'[i].id < up'[j].id,
         UNCHANGED <<boot, lab, handled, executed, turns, outcomes, events, cas, http,
                     worker, sent, down, received>>
  PROVE  IInv'
<1>1. loop'.pc = pc /\ loop'.id = 0
  BY AtFields
<1>2. UNCHANGED <<Written, Results>>
  BY DEF Written, Results
<1>3. /\ Queue(supervisor') /\ Range(supervisor') = Range(supervisor) \ {"loop"}
      /\ \A c \in Clients : client[c] # "report"
  BY LoopReleases
<1>4. TypeOK'
  <2>1. loop' \in LoopState
    BY AtFields
  <2> QED
    BY <1>3, <2>1 DEF IInv, TypeOK, http, Queue, Tasks
<1>5. LocksInOrder'
  BY <1>1, <1>3, LoopReleasesInOrder
<1>6. Order' /\ Story'
  <2>1. sent \in Nat /\ boot = "serving"
    BY LoopFacts DEF IInv, Order
  <2>2. Story'
    BY Zenon, <1>2 DEF IInv, Story
  <2>3. Past(Results, cas, sent + 1)' /\ 0 <= sent
    <3>1. Past(Results, cas, sent + 1)
      BY DEF IInv, Order
    <3>2. Past(Results, cas, sent + 1)'
      BY Zenon, <1>2, <3>1
    <3>3. 0 <= sent
      BY <2>1
    <3> QED
      BY Zenon, <3>2, <3>3
  <2>4. \A i \in DOMAIN up' : 0 < up'[i].id /\ up'[i].id <= sent' /\ Past(Results, cas, up[i].id)'
    BY <1>2 DEF Past
  <2>5. Order'
    BY Zenon, <1>1, <2>1, <2>3, <2>4 DEF Order
  <2> QED
    BY <2>2, <2>5
<1>7. Replies'
  BY Zenon, RepliesFrame DEF IInv, http
<1> QED
  BY <1>4, <1>5, <1>6, <1>7 DEF IInv

\* The frames that are left once the first is taken: later than it.
LEMMA FramesAfter ==
  ASSUME IInv, up # << >>, up' = Tail(up)
  PROVE  /\ Head(up) \in Frame /\ up' \in Seq(Frame)
         /\ loop.id < Head(up).id /\ Head(up).id <= sent
         /\ Past(Results, cas, Head(up).id)
         /\ \A i \in DOMAIN up' :
              /\ Head(up).id < up'[i].id /\ up'[i].id <= sent
              /\ Past(Results, cas, up'[i].id)
         /\ \A i, j \in DOMAIN up' : i < j => up'[i].id < up'[j].id
<1>1. up \in Seq(Frame)
  BY DEF IInv, TypeOK
<1>2. /\ up' \in Seq(Frame) /\ Head(up) \in Frame /\ Head(up) = up[1] /\ 1 \in DOMAIN up
      /\ \A i \in DOMAIN up' : i + 1 \in DOMAIN up /\ up'[i] = up[i + 1]
      /\ DOMAIN up' \subseteq Nat \ {0}
  BY <1>1, TailSet
<1>3. /\ \A i \in DOMAIN up : loop.id < up[i].id /\ up[i].id <= sent
           /\ Past(Results, cas, up[i].id)
      /\ \A i, j \in DOMAIN up : i < j => up[i].id < up[j].id
  BY DEF IInv, Order
<1>4. ASSUME NEW i \in DOMAIN up', NEW j \in DOMAIN up', i < j
      PROVE  up'[i].id < up'[j].id
  <2>1. i + 1 \in DOMAIN up /\ j + 1 \in DOMAIN up /\ i + 1 < j + 1
    BY <1>2, <1>4
  <2> QED
    BY <1>2, <1>3, <2>1
<1>5. ASSUME NEW i \in DOMAIN up'
      PROVE  /\ Head(up).id < up'[i].id /\ up'[i].id <= sent
             /\ Past(Results, cas, up'[i].id)
  <2>1. i + 1 \in DOMAIN up /\ 1 < i + 1
    BY <1>2
  <2> QED
    BY <1>2, <1>3, <2>1
<1> QED
  BY <1>2, <1>3, <1>4, <1>5

\* A frame is read: skipped, the end, or the next intent.
LEMMA LoopReadStep ==
  ASSUME IInv, LoopRead
  PROVE  IInv'
<1>1. /\ loop.pc = "read" /\ Holds("loop", supervisor) /\ up # << >>
      /\ supervisor' = Tail(supervisor) /\ up' = Tail(up)
      /\ UNCHANGED <<boot, lab, handled, executed, turns, outcomes, events, cas, http,
                     worker, sent, down, received>>
  BY DEF LoopRead
<1> DEFINE n == Head(up).id
           k == Head(up).kind
<1>2. /\ Head(up) \in Frame /\ up' \in Seq(Frame)
      /\ loop.id < n /\ n <= sent /\ Past(Results, cas, n)
      /\ \A i \in DOMAIN up' : n < up'[i].id /\ up'[i].id <= sent
                              /\ Past(Results, cas, up'[i].id)
      /\ \A i, j \in DOMAIN up' : i < j => up'[i].id < up'[j].id
  BY <1>1, FramesAfter
<1>3. n \in Frames /\ n \in Nat \ {0} /\ k \in Kinds
  BY <1>2, LoopFacts DEF Frame
<1>4. loop' = IF After(k) # "convert" THEN At(After(k))
              ELSE [At("convert") EXCEPT !.id = n, !.kind = k]
  BY DEF LoopRead
<1>5. After(k) \in {"convert", "lock", "ended"}
  BY <1>3 DEF After, Kinds
<1> HIDE DEF n, k
<1>6. CASE After(k) # "convert"
  <2>1. After(k) \in {"lock", "ended"} /\ loop' = At(After(k)) /\ loop.pc \in {"read", "write"}
    BY <1>1, <1>4, <1>5, <1>6
  <2>2. \A i \in DOMAIN up' : 0 < up'[i].id /\ up'[i].id <= sent
                              /\ Past(Results, cas, up'[i].id)
    <3> SUFFICES ASSUME NEW i \in DOMAIN up' PROVE 0 < up'[i].id
      BY <1>2
    <3>1. up'[i] \in Frame
      BY <1>2
    <3> QED
      BY <3>1, LoopFacts DEF Frame
  <2> QED
    BY <1>1, <1>2, <2>1, <2>2, LoopEndsStep
<1>7. CASE After(k) = "convert"
  <2>1. loop' = [At("convert") EXCEPT !.id = n, !.kind = k]
    BY <1>4, <1>7
  <2>2. loop' \in [pc : {"convert"}, id : Frames, kind : Kinds, decision : {"DENY"}]
    <3> DEFINE a == At("convert")
    <3>1. a \in [pc : {"convert"}, id : {0}, kind : {"skipped"}, decision : {"DENY"}]
      BY AtFields
    <3>2. loop' = [a EXCEPT !.id = n, !.kind = k]
      BY <2>1
    <3> HIDE DEF a
    <3> QED
      BY <1>3, <3>1, <3>2, Zenon
  <2>3. loop'.pc = "convert" /\ loop'.id = n
    BY <2>1, <2>2, AtFields
  <2>4. UNCHANGED <<Written, Results>>
    BY <1>1 DEF Written, Results
  <2>5. /\ Queue(supervisor') /\ Range(supervisor') = Range(supervisor) \ {"loop"}
        /\ \A c \in Clients : client[c] # "report"
    BY <1>1, LoopReleases
  <2>6. TypeOK'
    <3>1. loop' \in LoopState
      BY <2>2 DEF LoopState, Decisions
    <3> QED
      BY <1>1, <1>2, <2>5, <3>1 DEF IInv, TypeOK, http, Queue, Tasks
  <2>7. LocksInOrder'
    BY <1>1, <2>3, <2>5, LoopReleasesInOrder
  <2>8. Order' /\ Story'
    BY <1>1, <1>2, <1>3, <2>3, <2>4 DEF IInv, Order, Story
  <2>9. Replies'
    BY <1>1, RepliesFrame DEF IInv, http
  <2> QED
    BY <2>6, <2>7, <2>8, <2>9 DEF IInv
<1> QED
  BY <1>6, <1>7

\* The socket is at its end: the loop ends.
LEMMA LoopReadFailsStep ==
  ASSUME IInv, LoopReadFails
  PROVE  IInv'
<1>1. /\ loop.pc \in {"read", "write"} /\ Holds("loop", supervisor)
      /\ supervisor' = Tail(supervisor) /\ loop' = At("ended") /\ up = << >> /\ up' = up
      /\ UNCHANGED <<boot, lab, handled, executed, turns, outcomes, events, cas, http,
                     worker, sent, down, received>>
  BY DEF LoopReadFails, remote
<1>2. up' \in Seq(Frame) /\ DOMAIN up' = {} /\ "ended" \in {"lock", "ended"}
  BY <1>1
<1>3. /\ \A i \in DOMAIN up' : 0 < up'[i].id /\ up'[i].id <= sent
                              /\ Past(Results, cas, up'[i].id)
      /\ \A i, j \in DOMAIN up' : i < j => up'[i].id < up'[j].id
  BY <1>2
<1> QED
  BY <1>1, <1>2, <1>3, LoopEndsStep

\* The frame in hand is not in the store yet.
LEMMA NotYetStored ==
  ASSUME IInv, loop.pc \in {"convert", "lab"}
  PROVE  /\ loop.id \in Frames /\ loop.id \notin cas /\ loop.id \notin Clients
         /\ \A t \in Results : t.id # loop.id /\ t.id < loop.id
<1>1. loop.id \in Frames /\ loop.id \in Nat /\ loop.id \notin Clients
  BY LoopFacts DEF IInv, Order
<1>2. Past(Results, cas, loop.id)
  BY DEF IInv, Order
<1>3. \A t \in Results : t.id \in Nat
  BY WrittenTurns, LoopFacts DEF IInv, TypeOK, Turn, Results
<1> QED
  BY <1>1, <1>2, <1>3 DEF Past

\* An intent that does not convert is denied; another asks for the lab.
LEMMA LoopConvertStep ==
  ASSUME IInv, LoopConvert
  PROVE  IInv'
<1>1. /\ loop.pc = "convert"
      /\ UNCHANGED <<boot, supervisor, handled, executed, turns, outcomes, events, cas,
                     http, remote>>
  BY DEF LoopConvert
<1>2. UNCHANGED <<Written, Results>>
  BY <1>1 DEF Written, Results, remote
<1>3. loop.id \in Frames /\ loop.id \notin cas /\ \A t \in Results : t.id < loop.id
  BY <1>1, NotYetStored
<1>4. Written \subseteq Results /\ turns \subseteq Results
  BY DEF Results
<1>5. CASE loop.kind = "malformed"
  <2>1. loop' = [loop EXCEPT !.pc = "persist", !.decision = "DENY"] /\ lab' = lab
    BY <1>5 DEF LoopConvert
  <2>2. /\ loop' \in LoopState /\ loop'.pc = "persist" /\ loop'.id = loop.id
        /\ loop'.decision = "DENY"
    BY <2>1, LoopAnswered DEF Decisions
  <2>3. TypeOK'
    BY <1>1, <2>1, <2>2 DEF IInv, TypeOK, http, remote
  <2>4. LocksInOrder'
    BY <1>1, <2>1, <2>2 DEF IInv, LocksInOrder, AtSupervisor, AtLab, Holds, http
  <2>5. Order' /\ Story'
    BY <1>1, <1>2, <1>3, <1>4, <2>2 DEF IInv, Order, Story, remote
  <2> QED
    BY <1>1, <2>3, <2>4, <2>5, RepliesFrame DEF IInv, http
<1>6. CASE loop.kind # "malformed"
  <2>1. loop' = [loop EXCEPT !.pc = "lab"] /\ lab' = Append(lab, "loop")
    BY <1>6 DEF LoopConvert
  <2>2. loop' \in LoopState /\ loop'.pc = "lab" /\ loop'.id = loop.id
    BY <2>1, LoopMoves
  <2>3. Queue(lab') /\ Range(lab') = Range(lab) \cup {"loop"}
    BY <1>1, <2>1, LoopFacts, QueueAppend
  <2>4. TypeOK'
    BY <1>1, <2>2, <2>3 DEF IInv, TypeOK, http, remote, Queue, Tasks
  <2>5. LocksInOrder'
    BY <1>1, <2>2, <2>3 DEF IInv, LocksInOrder, AtSupervisor, AtLab, Holds, Queue, http
  <2>6. Order' /\ Story'
    BY <1>1, <1>2, <2>2 DEF IInv, Order, Story, remote
  <2> QED
    BY <1>1, <2>4, <2>5, <2>6, RepliesFrame DEF IInv, http
<1> QED
  BY <1>5, <1>6

\* The broker decides and executes the frame in hand.
LEMMA LoopExecuteStep ==
  ASSUME IInv, NEW outcome \in Outcomes, LoopExecute(outcome)
  PROVE  IInv'
<1> DEFINE new == IF outcome = "done" THEN {loop.id} ELSE {}
           allowed == IF outcome = "denied" THEN "ToolDenied" ELSE "ToolAllowed"
<1>1. /\ loop.pc = "lab" /\ Holds("loop", lab) /\ lab' = Tail(lab)
      /\ events' = events \cup {<<"ToolRequested", loop.id>>, <<allowed, loop.id>>}
      /\ cas' = cas \cup new
      /\ loop' = [loop EXCEPT !.pc = "persist", !.decision = Decision(outcome)]
      /\ UNCHANGED <<boot, supervisor, handled, executed, turns, outcomes, http, remote>>
  BY DEF LoopExecute, Execute
<1>2. /\ loop.id \in Frames /\ loop.id \notin cas /\ loop.id \notin Clients
      /\ \A t \in Results : t.id # loop.id /\ t.id < loop.id
  BY <1>1, NotYetStored
<1>3. /\ loop' \in LoopState /\ loop'.pc = "persist" /\ loop'.id = loop.id
      /\ loop'.decision = Decision(outcome) /\ (Decision(outcome) = "ALLOW" <=> outcome = "done")
  <2>1. Decision(outcome) \in Decisions /\ (Decision(outcome) = "ALLOW" <=> outcome = "done")
    BY DEF Decision, Decisions
  <2> QED
    BY Zenon, <1>1, <2>1, LoopAnswered
<1>4. UNCHANGED <<Written, Results>> /\ Written \subseteq Results /\ turns \subseteq Results
  BY <1>1 DEF Written, Results, remote
<1>5. Queue(lab') /\ Range(lab') = Range(lab) \ {"loop"}
  BY <1>1, LoopFacts, QueueTail DEF Holds
<1>6. TypeOK'
  <2>1. loop.id \in Intents /\ allowed \in {"ToolDenied", "ToolAllowed"}
    BY <1>2 DEF Intents
  <2>2. events' \subseteq Events /\ cas' \subseteq Intents
    BY <1>1, <2>1 DEF IInv, TypeOK, Events
  <2> QED
    BY <1>1, <1>3, <1>5, <2>2 DEF IInv, TypeOK, http, remote, Queue, Tasks
<1>7. LocksInOrder'
  BY <1>1, <1>3, <1>5, LoopFacts DEF IInv, LocksInOrder, AtSupervisor, AtLab, Holds, Queue, http
<1>8. Order' /\ Story'
  <2>1. new \subseteq {loop.id} /\ (loop.id \in cas' <=> outcome = "done")
    BY <1>1, <1>2
  <2>2. \A t \in Results : t.id \in cas' <=> t.id \in cas
    BY <1>1, <1>2
  <2>3. Story'
    BY <1>1, <1>4, <2>1, <2>2 DEF IInv, Story
  <2>4. ASSUME NEW m, Past(Results, cas, m), loop.id < m PROVE Past(Results, cas', m)
    BY <1>1, <2>1, <2>4 DEF Past
  <2>5. loop.id < sent + 1
    BY LoopFacts
  <2> QED
    BY <1>1, <1>2, <1>3, <1>4, <2>1, <2>3, <2>4, <2>5, Zenon DEF IInv, Order, remote
<1>9. Replies'
  BY <1>1, <1>2 DEF IInv, Replies, http
<1> QED
  BY <1>6, <1>7, <1>8, <1>9 DEF IInv

\* The turn is stored, or only logged.
LEMMA LoopPersistStep ==
  ASSUME IInv, LoopPersist
  PROVE  IInv'
<1> DEFINE r == [id |-> loop.id, decision |-> loop.decision]
<1>1. /\ loop.pc = "persist" /\ turns' \in {turns, turns \cup {r}}
      /\ loop' = [loop EXCEPT !.pc = "count"]
      /\ UNCHANGED <<boot, supervisor, lab, handled, executed, outcomes, events, cas,
                     http, remote>>
  BY DEF LoopPersist
<1>2. loop.id \in Frames /\ r \in Turn /\ r.id = loop.id /\ r.decision = loop.decision
  BY <1>1, LoopFacts DEF IInv, Order, Turn
<1>3. /\ loop' \in LoopState /\ loop'.pc = "count" /\ loop'.id = loop.id
      /\ loop'.decision = loop.decision
  BY <1>1, LoopMoves
<1> HIDE DEF r
<1>4. Written' = Written
  BY <1>1 DEF Written, remote
<1>5. TypeOK'
  BY <1>1, <1>2, <1>3 DEF IInv, TypeOK, http, remote
<1>6. LocksInOrder'
  BY <1>1, <1>3 DEF IInv, LocksInOrder, AtSupervisor, AtLab, Holds, http
<1>7. Order' /\ Story'
  <2>1. Results' \subseteq Results \cup {r}
    BY <1>1, <1>4 DEF Results
  <2>2. Story'
    BY <1>1, <1>2, <2>1 DEF IInv, Story, Order
  <2>3. ASSUME NEW m, Past(Results, cas, m), loop.id < m PROVE Past(Results', cas, m)
    BY <1>2, <2>1, <2>3 DEF Past
  <2>4. loop.id < sent + 1
    BY LoopFacts
  <2> QED
    BY <1>1, <1>3, <1>4, <2>2, <2>3, <2>4 DEF IInv, Order, remote
<1> QED
  BY <1>1, <1>5, <1>6, <1>7, RepliesFrame DEF IInv, http

\* The execution of the frame in hand is counted.
LEMMA LoopCountStep ==
  ASSUME IInv, LoopCount
  PROVE  IInv'
<1>1. /\ loop.pc = "count" /\ executed' = executed + (IF loop.decision = "ALLOW" THEN 1 ELSE 0)
      /\ supervisor' = Append(supervisor, "loop")
      /\ loop' = [loop EXCEPT !.pc = "write"]
      /\ UNCHANGED <<boot, lab, handled, turns, outcomes, events, cas, http, remote>>
  BY DEF LoopCount
<1>2. /\ loop' \in LoopState /\ loop'.pc = "write" /\ loop'.id = loop.id
      /\ loop'.decision = loop.decision
  BY <1>1, LoopMoves
<1>3. UNCHANGED <<Written, Results>>
  BY <1>1 DEF Written, Results, remote
<1>4. /\ Queue(supervisor') /\ Range(supervisor') = Range(supervisor) \cup {"loop"}
      /\ \A y : Holds(y, supervisor) => Holds(y, supervisor')
  BY <1>1, LoopFacts, QueueAppend
<1>5. TypeOK'
  <2>1. executed' \in Nat
    BY <1>1 DEF IInv, TypeOK
  <2> QED
    BY <1>1, <1>2, <1>4, <2>1 DEF IInv, TypeOK, http, remote, Queue, Tasks
<1>6. LocksInOrder'
  BY <1>1, <1>2, <1>4 DEF IInv, LocksInOrder, AtSupervisor, AtLab, Queue, http
<1>7. Order' /\ Story'
  BY <1>1, <1>2, <1>3 DEF IInv, Order, Story, remote
<1> QED
  BY <1>1, <1>5, <1>6, <1>7, RepliesFrame DEF IInv, http

\* The result is written, once, or the socket is closed and the loop ends.
LEMMA LoopWriteStep ==
  ASSUME IInv, LoopWrite
  PROVE  IInv'
<1> DEFINE r == [id |-> loop.id, decision |-> loop.decision]
<1>1. /\ loop.pc = "write" /\ Holds("loop", supervisor) /\ supervisor' = Tail(supervisor)
      /\ UNCHANGED <<boot, lab, handled, executed, turns, outcomes, events, cas, http,
                     worker, sent, up, received>>
  BY DEF LoopWrite
<1>2. loop.id \in Frames /\ r \in Turn /\ r.id = loop.id /\ r.decision = loop.decision
  BY <1>1, LoopFacts, Zenon DEF IInv, Order, Turn
<1>3. CASE loop' = [loop EXCEPT !.pc = "handled"] /\ down' = Append(down, r)
  <2> HIDE DEF r
  <2>1. loop' \in LoopState /\ loop'.pc = "handled" /\ loop'.id = loop.id
    BY <1>3, LoopMoves
  <2>2. /\ down' \in Seq(Turn \cup {HelloAck})
        /\ Written' = Written \cup {r} /\ Results' = Results \cup {r}
    <3>1. down' \in Seq(Turn \cup {HelloAck}) /\ Written' = Written \cup ({r} \ {HelloAck})
      BY <1>1, <1>2, <1>3, WrittenGrows DEF IInv
    <3>2. r # HelloAck
      BY <1>2, HelloIsNoTurn
    <3> QED
      BY <1>1, <3>1, <3>2 DEF Results
  <2>3. /\ Queue(supervisor') /\ Range(supervisor') = Range(supervisor) \ {"loop"}
        /\ \A c \in Clients : client[c] # "report"
    BY <1>1, LoopReleases
  <2>4. TypeOK'
    BY <1>1, <2>1, <2>2, <2>3 DEF IInv, TypeOK, http, Queue, Tasks
  <2>5. LocksInOrder'
    BY <1>1, <2>1, <2>3, LoopReleasesInOrder
  <2>6. Order' /\ Story'
    <3>1. Story'
      BY <1>1, <1>2, <2>2, Zenon DEF IInv, Story, Order
    <3>2. ASSUME NEW m, Past(Results, cas, m), loop.id < m PROVE Past(Results', cas, m)
      BY <1>2, <2>2, <3>2 DEF Past
    <3>3. loop.id < sent + 1
      BY LoopFacts
    <3> QED
      BY <1>1, <2>1, <3>1, <3>2, <3>3 DEF IInv, Order
  <2> QED
    BY <1>1, <2>4, <2>5, <2>6, RepliesFrame DEF IInv, http
<1>4. CASE loop' = At("ended") /\ down' = down
  <2>1. /\ up' \in Seq(Frame) /\ loop.pc \in {"read", "write"}
        /\ "ended" \in {"lock", "ended"}
    BY <1>1 DEF IInv, TypeOK
  <2>2. \A i, j \in DOMAIN up' : i < j => up'[i].id < up'[j].id
    BY <1>1 DEF IInv, Order
  <2>3. \A i \in DOMAIN up' : 0 < up'[i].id /\ up'[i].id <= sent
                              /\ Past(Results, cas, up'[i].id)
    <3> SUFFICES ASSUME NEW i \in DOMAIN up' PROVE 0 < up'[i].id
      BY <1>1 DEF IInv, Order
    <3>1. up'[i] \in Frame
      BY <2>1
    <3> QED
      BY <3>1, LoopFacts DEF Frame
  <2> QED
    BY <1>1, <1>4, <2>1, <2>2, <2>3, LoopEndsStep
<1> QED
  BY <1>3, <1>4 DEF LoopWrite

\* The result that was written is counted, and the loop starts over.
LEMMA LoopHandledStep ==
  ASSUME IInv, LoopHandled
  PROVE  IInv'
<1>1. /\ loop.pc = "handled" /\ handled' = handled + 1 /\ loop' = At("lock")
      /\ UNCHANGED <<boot, supervisor, lab, executed, turns, outcomes, events, cas,
                     http, remote>>
  BY DEF LoopHandled
<1>2. loop'.pc = "lock" /\ loop'.id = 0
  BY <1>1, AtFields
<1>3. UNCHANGED <<Written, Results>>
  BY <1>1 DEF Written, Results, remote
<1>4. TypeOK'
  <2>1. handled' \in Nat
    BY <1>1 DEF IInv, TypeOK
  <2>2. loop' \in LoopState
    BY <1>1, AtFields
  <2> QED
    BY <1>1, <2>1, <2>2 DEF IInv, TypeOK, http, remote
<1>5. LocksInOrder'
  BY <1>1, <1>2 DEF IInv, LocksInOrder, AtSupervisor, AtLab, Holds, http
<1>6. Order' /\ Story'
  <2>1. \A i \in DOMAIN up : 0 < up[i].id
    <3> SUFFICES ASSUME NEW i \in DOMAIN up PROVE 0 < up[i].id
      OBVIOUS
    <3>1. up[i] \in Frame
      BY DEF IInv, TypeOK
    <3> QED
      BY <3>1, LoopFacts DEF Frame
  <2>2. 0 <= sent /\ boot = "serving"
    <3>1. 0 <= sent
      BY LoopFacts
    <3> QED
      BY <1>1, <3>1 DEF IInv, Order
  <2> QED
    BY <1>1, <1>2, <1>3, <2>1, <2>2 DEF IInv, Order, Story, remote
<1> QED
  BY <1>1, <1>4, <1>5, <1>6, RepliesFrame DEF IInv, http

-----------------------------------------------------------------------------
(***************************************************************************)
(* The HTTP handlers.                                                      *)
(***************************************************************************)
\* What the invariant says of one handler.
LEMMA ClientFacts ==
  ASSUME IInv, NEW c \in Clients
  PROVE  /\ c \in Tasks /\ c # "loop" /\ c \in Intents /\ c \notin Frames
         /\ c # loop.id
         /\ Queue(supervisor) /\ Queue(lab)
         /\ client \in [Clients -> {"new"} \cup Waiting \cup Finished]
         /\ c \in Range(supervisor) <=> client[c] \in {"health", "report"}
         /\ c \in Range(lab) <=> client[c] \in {"lab", "orphan", "report"}
<1>1. c \in Tasks /\ c # "loop" /\ c \in Intents
  BY ClientsAssumption DEF Tasks, Intents
<1>2. c \notin Frames /\ c # loop.id
  BY LoopFacts
<1>3. Range(supervisor) = AtSupervisor /\ Range(lab) = AtLab
  BY DEF IInv, LocksInOrder
<1>4. c \in Range(supervisor) <=> client[c] \in {"health", "report"}
  BY <1>1, <1>3 DEF AtSupervisor
<1>5. c \in Range(lab) <=> client[c] \in {"lab", "orphan", "report"}
  BY <1>1, <1>3 DEF AtLab
<1> QED
  BY <1>1, <1>2, <1>4, <1>5, LoopFacts DEF IInv, TypeOK

\* One handler moves.
LEMMA ClientMoves ==
  ASSUME IInv, NEW c \in Clients, NEW pc \in {"new"} \cup Waiting \cup Finished, Step(c, pc)
  PROVE  /\ client' \in [Clients -> {"new"} \cup Waiting \cup Finished]
         /\ client'[c] = pc /\ \A d \in Clients \ {c} : client'[d] = client[d]
BY ClientFacts DEF Step

\* The frames, the results and the story are not the handlers' concern.
LEMMA HandlerOrder ==
  ASSUME IInv, UNCHANGED <<boot, turns, events, cas, loop, remote>>
  PROVE  Order' /\ Story' /\ UNCHANGED Written
<1>1. UNCHANGED Written
  BY DEF Written, remote
<1> QED
  BY <1>1, OrderFrame DEF IInv, remote

\* A request that takes no mutex and asks the broker for nothing.
LEMMA PlainStep ==
  ASSUME IInv, NEW c \in Clients, client[c] \in {"new", "campaign"},
         NEW pc \in {"served", "campaign"}, Step(c, pc), outcomes' \subseteq Clients,
         UNCHANGED <<boot, supervisor, lab, handled, executed, turns, events, cas, loop,
                     reply, remote>>
  PROVE  IInv'
<1>1. pc \in {"new"} \cup Waiting \cup Finished
  BY DEF Waiting, Finished
<1>2. /\ client' \in [Clients -> {"new"} \cup Waiting \cup Finished]
      /\ client'[c] = pc /\ \A d \in Clients \ {c} : client'[d] = client[d]
  BY <1>1, ClientMoves
<1>3. TypeOK'
  BY <1>2 DEF IInv, TypeOK, remote
<1>4. LocksInOrder'
  BY SMTT(30), <1>2 DEF IInv, LocksInOrder, AtSupervisor, AtLab, Holds
<1>5. Order' /\ Story' /\ UNCHANGED Written
  BY HandlerOrder
<1>6. Replies'
  BY <1>2 DEF IInv, Replies
<1> QED
  BY <1>3, <1>4, <1>5, <1>6 DEF IInv

\* tool_intent asks for the lab.
LEMMA ToolIntentStep ==
  ASSUME IInv, NEW c \in Clients, ToolIntent(c)
  PROVE  IInv'
<1>1. /\ client[c] = "new" /\ Step(c, "lab") /\ lab' = Append(lab, c)
      /\ UNCHANGED <<boot, supervisor, handled, executed, turns, outcomes, events, cas,
                     loop, reply, remote>>
  BY DEF ToolIntent, New
<1>2. /\ client' \in [Clients -> {"new"} \cup Waiting \cup Finished]
      /\ client'[c] = "lab" /\ \A d \in Clients \ {c} : client'[d] = client[d]
  BY <1>1, ClientMoves DEF Waiting
<1>3. Queue(lab') /\ Range(lab') = Range(lab) \cup {c}
  BY <1>1, ClientFacts, QueueAppend
<1>4. TypeOK'
  BY <1>1, <1>2, <1>3 DEF IInv, TypeOK, remote, Queue, Tasks
<1>5. LocksInOrder'
  BY SMTT(30), <1>1, <1>2, <1>3 DEF IInv, LocksInOrder, AtSupervisor, AtLab, Holds, Queue
<1>6. Order' /\ Story' /\ UNCHANGED Written
  BY <1>1, HandlerOrder
<1>7. Replies'
  BY <1>1, <1>2 DEF IInv, Replies
<1> QED
  BY <1>4, <1>5, <1>6, <1>7 DEF IInv

\* The broker decides and executes a client's intent, its client there or gone.
LEMMA ToolExecuteStep ==
  ASSUME IInv, NEW c \in Clients, NEW outcome \in Outcomes, ToolExecute(c, outcome)
  PROVE  IInv'
<1> DEFINE new == IF outcome = "done" THEN {c} ELSE {}
           allowed == IF outcome = "denied" THEN "ToolDenied" ELSE "ToolAllowed"
           pc == IF client[c] = "lab" THEN "receipt" ELSE "uncounted"
<1>1. /\ client[c] \in {"lab", "orphan"} /\ Holds(c, lab) /\ lab' = Tail(lab)
      /\ events' = events \cup {<<"ToolRequested", c>>, <<allowed, c>>}
      /\ cas' = cas \cup new /\ Step(c, pc)
      /\ reply' = [reply EXCEPT ![c] = Decision(outcome)]
      /\ UNCHANGED <<boot, supervisor, handled, executed, turns, outcomes, loop, remote>>
  BY DEF ToolExecute, Execute
<1>2. pc \in {"receipt", "uncounted"} /\ new \subseteq {c} /\ (c \in new <=> outcome = "done")
      /\ allowed \in {"ToolDenied", "ToolAllowed"} /\ (outcome = "done" => allowed = "ToolAllowed")
  OBVIOUS
<1>3. /\ c \notin cas /\ c \notin Frames /\ c # loop.id
      /\ reply' \in [Clients -> Decisions] /\ (reply'[c] = "ALLOW" <=> outcome = "done")
      /\ \A d \in Clients \ {c} : reply'[d] = reply[d]
  BY <1>1, ClientFacts, Zenon DEF IInv, TypeOK, Replies, Decision, Decisions
<1> HIDE DEF new, allowed, pc
<1>4. /\ client' \in [Clients -> {"new"} \cup Waiting \cup Finished]
      /\ client'[c] = pc /\ \A d \in Clients \ {c} : client'[d] = client[d]
  BY <1>1, <1>2, ClientMoves DEF Waiting, Finished
<1>5. Queue(lab') /\ Range(lab') = Range(lab) \ {c}
  BY <1>1, ClientFacts, QueueTail DEF Holds
<1>6. TypeOK'
  <2>1. c \in Intents
    BY ClientFacts
  <2>2. events' \subseteq Events /\ cas' \subseteq Intents
    BY <1>1, <1>2, <2>1 DEF IInv, TypeOK, Events
  <2> QED
    BY <1>1, <1>3, <1>4, <1>5, <2>2 DEF IInv, TypeOK, remote, Queue, Tasks
<1>7. LocksInOrder'
  <2>1. /\ Range(supervisor) = AtSupervisor /\ Range(lab) = AtLab /\ IsInjective(supervisor)
        /\ \A d \in Clients : client[d] = "report" => Holds(d, supervisor)
    BY DEF IInv, LocksInOrder
  <2>2. c # "loop" /\ client[c] \in {"lab", "orphan"}
    BY <1>1, ClientFacts
  <2>3. Range(supervisor') = AtSupervisor'
    BY <1>1, <1>2, <1>4, <2>1, <2>2 DEF AtSupervisor
  <2>4. Range(lab') = AtLab'
    BY <1>1, <1>2, <1>4, <1>5, <2>1, <2>2 DEF AtLab
  <2>5. \A d \in Clients : client'[d] = "report" => Holds(d, supervisor')
    BY <1>1, <1>2, <1>4, <2>1
  <2> QED
    BY <1>1, <1>5, <2>1, <2>3, <2>4, <2>5 DEF LocksInOrder, Queue
<1>8. Order' /\ Story' /\ UNCHANGED Written
  <2>1. UNCHANGED <<Written, Results>>
    BY <1>1 DEF Written, Results, remote
  <2>2. cas' \cap Frames = cas \cap Frames
    BY <1>1, <1>2, <1>3, Zenon
  <2>3. \A t \in Results : t.id \in Frames
    BY WrittenTurns DEF IInv, TypeOK, Turn, Results
  <2>4. Story'
    BY <1>1, <1>2, <1>3, <2>1, <2>3, Zenon DEF IInv, Story
  <2>5. \A m : Past(Results, cas, m) <=> Past(Results, cas', m)
    BY <2>2 DEF Past
  <2>6. loop.id \in cas' <=> loop.id \in cas
    BY <1>1, <1>2, <1>3, Zenon
  <2> QED
    BY <1>1, <2>1, <2>4, <2>5, <2>6, Zenon DEF IInv, Order, remote
<1>9. Replies'
  BY Zenon, <1>1, <1>2, <1>3, <1>4 DEF IInv, Replies
<1> QED
  BY <1>6, <1>7, <1>8, <1>9 DEF IInv

\* A client's execution is counted.
LEMMA ToolCountStep ==
  ASSUME IInv, NEW c \in Clients, ToolCount(c)
  PROVE  IInv'
<1>1. /\ client[c] = "receipt" /\ Step(c, "counted")
      /\ executed' = executed + (IF reply[c] = "ALLOW" THEN 1 ELSE 0)
      /\ UNCHANGED <<boot, supervisor, lab, handled, turns, outcomes, events, cas, loop,
                     reply, remote>>
  BY Zenon DEF ToolCount
<1>2. /\ client' \in [Clients -> {"new"} \cup Waiting \cup Finished]
      /\ client'[c] = "counted" /\ \A d \in Clients \ {c} : client'[d] = client[d]
  BY <1>1, ClientMoves DEF Waiting
<1>3. executed' \in Nat /\ executed' = IF reply[c] = "ALLOW" THEN executed + 1 ELSE executed
  BY <1>1 DEF IInv, TypeOK
<1>4. TypeOK'
  BY <1>1, <1>2, <1>3 DEF IInv, TypeOK, remote
<1>5. LocksInOrder'
  BY <1>1, <1>2 DEF IInv, LocksInOrder, AtSupervisor, AtLab, Holds
<1>6. Order' /\ Story' /\ UNCHANGED Written
  BY <1>1, HandlerOrder, Zenon
<1>7. Replies'
  BY <1>1, <1>2, Zenon DEF IInv, Replies
<1> QED
  BY <1>4, <1>5, <1>6, <1>7 DEF IInv

\* A client is answered.
LEMMA ToolHandledStep ==
  ASSUME IInv, NEW c \in Clients, ToolHandled(c)
  PROVE  IInv'
<1>1. /\ client[c] = "counted" /\ Step(c, "answered") /\ handled' = handled + 1
      /\ UNCHANGED <<boot, supervisor, lab, executed, turns, outcomes, events, cas, loop,
                     reply, remote>>
  BY DEF ToolHandled
<1>2. /\ client' \in [Clients -> {"new"} \cup Waiting \cup Finished]
      /\ client'[c] = "answered" /\ \A d \in Clients \ {c} : client'[d] = client[d]
  BY <1>1, ClientMoves DEF Finished
<1>3. handled \in Nat /\ handled' \in Nat
  BY <1>1 DEF IInv, TypeOK
<1>4. TypeOK'
  BY <1>1, <1>2, <1>3 DEF IInv, TypeOK, remote
<1>5. LocksInOrder'
  BY <1>1, <1>2 DEF IInv, LocksInOrder, AtSupervisor, AtLab, Holds
<1>6. Order' /\ Story' /\ UNCHANGED Written
  BY <1>1, HandlerOrder
<1>7. Replies'
  BY <1>1, <1>2, Zenon DEF IInv, Replies
<1> QED
  BY <1>4, <1>5, <1>6, <1>7 DEF IInv

\* A step of a handler that is about the mutexes alone.
LEMMA MutexStep ==
  ASSUME IInv, NEW c \in Clients, client[c] \in {"new", "health", "report"},
         NEW pc \in {"health", "report", "served", "left"}, Step(c, pc),
         Queue(supervisor'), Queue(lab'), LocksInOrder',
         UNCHANGED <<boot, handled, executed, turns, outcomes, events, cas, loop, reply,
                     remote>>
  PROVE  IInv'
<1>1. /\ client' \in [Clients -> {"new"} \cup Waiting \cup Finished]
      /\ client'[c] = pc /\ \A d \in Clients \ {c} : client'[d] = client[d]
  BY ClientMoves DEF Waiting, Finished
<1>2. TypeOK'
  BY <1>1 DEF IInv, TypeOK, remote, Queue, Tasks
<1>3. Order' /\ Story' /\ UNCHANGED Written
  BY HandlerOrder
<1>4. Replies'
  BY <1>1 DEF IInv, Replies
<1> QED
  BY <1>2, <1>3, <1>4 DEF IInv

\* health asks for the supervisor.
LEMMA HealthStep ==
  ASSUME IInv, NEW c \in Clients, Health(c)
  PROVE  IInv'
<1>1. /\ client[c] = "new" /\ Step(c, "health") /\ supervisor' = Append(supervisor, c)
      /\ UNCHANGED <<boot, lab, handled, executed, turns, outcomes, events, cas, loop,
                     reply, remote>>
  BY DEF Health, New
<1>2. client'[c] = "health" /\ \A d \in Clients \ {c} : client'[d] = client[d]
  BY <1>1, ClientMoves DEF Waiting
<1>3. /\ Queue(supervisor') /\ Range(supervisor') = Range(supervisor) \cup {c}
      /\ \A y : Holds(y, supervisor) => Holds(y, supervisor')
  BY <1>1, ClientFacts, QueueAppend, Zenon
<1>4. LocksInOrder'
  BY <1>1, <1>2, <1>3 DEF IInv, LocksInOrder, AtSupervisor, AtLab, Queue
<1>5. Queue(lab')
  BY <1>1, ClientFacts
<1> QED
  BY <1>1, <1>3, <1>4, <1>5, MutexStep

\* health, with the supervisor in hand, asks for the lab.
LEMMA HealthLabStep ==
  ASSUME IInv, NEW c \in Clients, HealthLab(c)
  PROVE  IInv'
<1>1. /\ client[c] = "health" /\ Holds(c, supervisor) /\ Step(c, "report")
      /\ lab' = Append(lab, c)
      /\ UNCHANGED <<boot, supervisor, handled, executed, turns, outcomes, events, cas,
                     loop, reply, remote>>
  BY DEF HealthLab
<1>2. client'[c] = "report" /\ \A d \in Clients \ {c} : client'[d] = client[d]
  BY <1>1, ClientMoves DEF Waiting
<1>3. Queue(lab') /\ Range(lab') = Range(lab) \cup {c}
  BY <1>1, ClientFacts, QueueAppend
<1>4. LocksInOrder'
  BY <1>1, <1>2, <1>3 DEF IInv, LocksInOrder, AtSupervisor, AtLab, Holds, Queue
<1>5. Queue(supervisor')
  BY <1>1, ClientFacts
<1> QED
  BY <1>1, <1>3, <1>4, <1>5, MutexStep

\* health reports and gives both back: it is the owner of both.
LEMMA HealthReportStep ==
  ASSUME IInv, NEW c \in Clients, HealthReport(c)
  PROVE  IInv'
<1>1. /\ client[c] = "report" /\ Holds(c, lab) /\ Step(c, "served")
      /\ lab' = Tail(lab) /\ supervisor' = Tail(supervisor)
      /\ UNCHANGED <<boot, handled, executed, turns, outcomes, events, cas, loop, reply,
                     remote>>
  BY DEF HealthReport
<1>2. client'[c] = "served" /\ \A d \in Clients \ {c} : client'[d] = client[d]
  BY <1>1, ClientMoves DEF Finished
<1>3. Holds(c, supervisor) /\ \A d \in Clients \ {c} : client[d] # "report"
  BY <1>1 DEF IInv, LocksInOrder, Holds
<1>4. /\ Queue(lab') /\ Range(lab') = Range(lab) \ {c}
      /\ Queue(supervisor') /\ Range(supervisor') = Range(supervisor) \ {c}
  BY <1>1, <1>3, ClientFacts, QueueTail DEF Holds
<1>5. LocksInOrder'
  <2>1. AtSupervisor' = AtSupervisor \ {c} /\ AtLab' = AtLab \ {c}
    BY <1>1, <1>2, ClientFacts DEF AtSupervisor, AtLab
  <2>2. Range(supervisor') = AtSupervisor' /\ Range(lab') = AtLab'
    BY <1>4, <2>1 DEF IInv, LocksInOrder
  <2>3. \A d \in Clients : client'[d] # "report"
    BY <1>2, <1>3
  <2> QED
    BY <1>4, <2>2, <2>3 DEF LocksInOrder, Queue
<1> QED
  BY <1>1, <1>4, <1>5, MutexStep

\* A client disconnects: its handler is dropped, a task at the lab runs on.
LEMMA ClientLeavesStep ==
  ASSUME IInv, NEW c \in Clients, ClientLeaves(c)
  PROVE  IInv'
<1> DEFINE pc == LeftAt(client[c])
<1>1. /\ client[c] \in Waiting \ {"orphan"} /\ Step(c, pc)
      /\ supervisor' = Without(c, supervisor)
      /\ lab' = IF client[c] = "lab" THEN lab ELSE Without(c, lab)
      /\ UNCHANGED <<boot, handled, executed, turns, outcomes, events, cas, loop, reply,
                     remote>>
  BY DEF ClientLeaves
<1>2. /\ client[c] = "lab" <=> pc = "orphan"
      /\ client[c] = "receipt" <=> pc = "uncounted"
      /\ client[c] = "counted" <=> pc = "unhandled"
      /\ pc \in {"orphan", "uncounted", "unhandled", "left"}
  BY DEF LeftAt
<1> HIDE DEF pc
<1>3. /\ client' \in [Clients -> {"new"} \cup Waiting \cup Finished]
      /\ client'[c] = pc /\ \A d \in Clients \ {c} : client'[d] = client[d]
  BY <1>1, <1>2, ClientMoves DEF Waiting, Finished
<1>4. /\ Queue(supervisor') /\ Range(supervisor') = Range(supervisor) \ {c}
      /\ \A y : y # c /\ Holds(y, supervisor) => Holds(y, supervisor')
  BY <1>1, ClientFacts, QueueWithout, Zenon
<1>5. /\ Queue(lab')
      /\ Range(lab') = IF client[c] = "lab" THEN Range(lab) ELSE Range(lab) \ {c}
  BY <1>1, ClientFacts, QueueWithout, Zenon
<1>6. TypeOK'
  BY <1>1, <1>3, <1>4, <1>5 DEF IInv, TypeOK, remote, Queue, Tasks
<1>7. LocksInOrder'
  <2>1. Range(supervisor') = AtSupervisor'
    <3>1. Range(supervisor) = AtSupervisor /\ c # "loop"
      BY ClientFacts DEF IInv, LocksInOrder
    <3> QED
      BY <1>1, <1>2, <1>3, <1>4, <3>1 DEF AtSupervisor
  <2>2. Range(lab') = AtLab'
    <3>1. Range(lab) = AtLab /\ c # "loop"
      BY ClientFacts DEF IInv, LocksInOrder
    <3> QED
      BY <1>1, <1>2, <1>3, <1>5, <3>1 DEF AtLab
  <2>3. \A d \in Clients : client'[d] = "report" => Holds(d, supervisor')
    BY <1>2, <1>3, <1>4 DEF IInv, LocksInOrder
  <2> QED
    BY <1>4, <1>5, <2>1, <2>2, <2>3, Zenon DEF LocksInOrder, Queue
<1>8. Order' /\ Story' /\ UNCHANGED Written
  BY <1>1, HandlerOrder
<1>9. Replies'
  BY <1>1, <1>2, <1>3 DEF IInv, Replies, Waiting
<1> QED
  BY <1>6, <1>7, <1>8, <1>9 DEF IInv

-----------------------------------------------------------------------------
(***************************************************************************)
(* The theorems.                                                           *)
(***************************************************************************)
\* A step of main, of the worker or of nobody preserves the invariant.
LEMMA OutsideInvariant ==
  ASSUME IInv, Boot \/ Worker \/ WorkerCrashes \/ Quiet
               \/ \E kind \in {"skipped", "ending"} : Notify(kind)
  PROVE  IInv'
<1> USE DEF daemon, shared, http, remote
<1>0. /\ boot \in {"launch", "hello", "serving"}
      /\ worker \in {"none", "connecting", "greeting", "idle", "proposing", "waiting",
                     "hung", "exited"}
  BY DEF IInv, TypeOK
<1>1. CASE NoWorker
  BY <1>0, <1>1, AsideStep DEF NoWorker
<1>2. CASE Launch
  BY <1>0, <1>2, AsideStep DEF Launch
<1>3. CASE AcceptHello
  BY <1>3, AcceptHelloStep
<1>4. CASE HandshakeFails
  <2>1. worker' \in {worker, "exited"}
    BY <1>4 DEF HandshakeFails
  <2> QED
    BY <1>0, <1>4, <2>1, AsideStep DEF HandshakeFails
<1>5. CASE Connect
  BY <1>0, <1>5, AsideStep DEF Connect
<1>6. CASE Receive
  BY <1>6, ReceiveStep
<1>7. CASE CampaignEnds
  BY <1>0, <1>7, AsideStep DEF CampaignEnds
<1>8. CASE ReadTimesOut
  BY <1>0, <1>8, AsideStep DEF ReadTimesOut
<1>9. ASSUME NEW kind \in {"intent", "malformed"}, Propose(kind) PROVE IInv'
  BY <1>9, SendStep DEF Propose, Kinds
<1>10. CASE WorkerCrashes
  <2>1. worker' \in {"exited", "hung"}
    BY <1>10 DEF WorkerCrashes
  <2> QED
    BY <1>0, <1>10, <2>1, AsideStep DEF WorkerCrashes
<1>11. CASE Quiet
  BY <1>0, <1>11, AsideStep DEF Quiet, vars
<1>12. ASSUME NEW kind \in {"skipped", "ending"}, Notify(kind) PROVE IInv'
  BY <1>12, SendStep DEF Notify, Kinds
<1> QED
  BY <1>1, <1>2, <1>3, <1>4, <1>5, <1>6, <1>7, <1>8, <1>9, <1>10, <1>11, <1>12
  DEF Boot, Worker

\* A step of a handler preserves the invariant.
LEMMA HandlerInvariant ==
  ASSUME IInv, NEW c \in Clients, Arrive(c) \/ Serve(c) \/ ClientLeaves(c)
  PROVE  IInv'
<1> USE DEF shared
<1>0. outcomes \subseteq Clients
  BY DEF IInv, TypeOK
<1>1. CASE AnswerAtOnce(c)
  BY <1>0, <1>1, PlainStep DEF AnswerAtOnce, New
<1>2. CASE ToolIntent(c)
  BY <1>2, ToolIntentStep
<1>3. CASE FixtureCampaign(c)
  BY <1>0, <1>3, PlainStep DEF FixtureCampaign, New
<1>4. CASE Health(c)
  BY <1>4, HealthStep
<1>5. ASSUME NEW outcome \in Outcomes, ToolExecute(c, outcome) PROVE IInv'
  BY <1>5, ToolExecuteStep
<1>6. CASE ToolCount(c)
  BY <1>6, ToolCountStep
<1>7. CASE ToolHandled(c)
  BY <1>7, ToolHandledStep
<1>8. CASE FixtureDone(c)
  <2>1. outcomes' \subseteq Clients
    BY <1>0, <1>8 DEF FixtureDone
  <2> QED
    BY <1>8, <2>1, PlainStep DEF FixtureDone
<1>9. CASE HealthLab(c)
  BY <1>9, HealthLabStep
<1>10. CASE HealthReport(c)
  BY <1>10, HealthReportStep
<1>11. CASE ClientLeaves(c)
  BY <1>11, ClientLeavesStep
<1> QED
  BY <1>1, <1>2, <1>3, <1>4, <1>5, <1>6, <1>7, <1>8, <1>9, <1>10, <1>11
  DEF Arrive, Serve

\* Every step preserves the invariant.
LEMMA NextInvariant ==
  ASSUME IInv, [Next]_vars
  PROVE  IInv'
<1>1. CASE Loop
  <2>1. ASSUME NEW outcome \in Outcomes, LoopExecute(outcome) PROVE IInv'
    BY <2>1, LoopExecuteStep
  <2> QED
    BY <1>1, <2>1, LoopLockStep, LoopReadStep, LoopReadFailsStep, LoopConvertStep,
       LoopPersistStep, LoopCountStep, LoopWriteStep, LoopHandledStep
    DEF Loop
<1>2. CASE UNCHANGED vars
  BY <1>2, AsideStep, Zenon DEF vars, shared, http, IInv, TypeOK
<1> QED
  BY <1>1, <1>2, OutsideInvariant, HandlerInvariant DEF Next

\* The inductive invariant holds of the daemon at all times.
THEOREM DaemonInvariant == Spec => []IInv
<1>1. Init => IInv
  BY InitInvariant
<1>2. IInv /\ [Next]_vars => IInv'
  BY NextInvariant
<1> QED
  BY <1>1, <1>2, PTL DEF Spec

\* Every variable of the daemon keeps its type, whatever arrives in what order.
THEOREM DaemonTypes == Spec => []TypeOK
<1>1. IInv => TypeOK
  BY DEF IInv
<1> QED
  BY <1>1, DaemonInvariant, PTL

\* For any clients and any frames: what the worker is told, what the registry
\* stores, what the ledger says and what the artifact store holds agree.
THEOREM AlwaysOneStory == Spec => []OneStory
<1>1. IInv => OneStory
  BY DEF IInv, Story, OneStory, Results, Written
<1> QED
  BY <1>1, DaemonInvariant, PTL

\* For any clients: both mutexes are held and waited for by exactly the tasks
\* that are at them, and a task at both owns the supervisor.
THEOREM LocksAlwaysInOrder == Spec => []LocksInOrder
<1>1. IInv => LocksInOrder
  BY DEF IInv
<1> QED
  BY <1>1, DaemonInvariant, PTL

-----------------------------------------------------------------------------
(***************************************************************************)
(* The counters.                                                           *)
(***************************************************************************)
\* What the counters count.  The sets grow one element at a time, so they are
\* finite whatever the clients are.
Counts ==
  /\ IsFiniteSet(cas) /\ IsFiniteSet(Written) /\ IsFiniteSet(Answered)
  /\ executed = Cardinality(cas \ Uncounted)
  /\ handled + (IF loop.pc = "handled" THEN 1 ELSE 0)
       = Cardinality(Written) + Cardinality(Answered)

-----------------------------------------------------------------------------
\* A step that stores, counts, writes and answers nothing.
LEMMA NothingCounted ==
  ASSUME Counts, UNCHANGED <<cas, executed, handled, Written, Uncounted, Answered>>,
         loop.pc = "handled" <=> loop'.pc = "handled"
  PROVE  Counts'
BY DEF Counts

\* A step outside the loop and the handlers.
LEMMA OutsideCounts ==
  ASSUME IInv, Counts, Boot \/ Worker \/ WorkerCrashes \/ UNCHANGED vars
                       \/ \E kind \in {"skipped", "ending"} : Notify(kind)
  PROVE  Counts'
<1>1. CASE UNCHANGED <<cas, executed, handled, loop, client>> /\ UNCHANGED Written
  BY <1>1, NothingCounted DEF Uncounted, Answered
<1>2. CASE AcceptHello
  <2>1. /\ loop.pc = "off" /\ loop'.pc = "lock"
        /\ UNCHANGED <<cas, executed, handled, client, received>>
    BY <1>2, AtFields DEF AcceptHello, IInv, Order, shared, http
  <2>2. UNCHANGED <<Uncounted, Answered>>
    BY <2>1 DEF Uncounted, Answered
  <2>3. Written' = Written \cup ({HelloAck} \ {HelloAck})
    <3>1. TypeOK /\ HelloAck \in Turn \cup {HelloAck} /\ down' = Append(down, HelloAck)
      BY <1>2 DEF IInv, AcceptHello
    <3> QED
      BY <2>1, <3>1, WrittenGrows, Zenon
  <2> QED
    BY <2>1, <2>2, <2>3, NothingCounted
<1>3. CASE Receive
  BY <1>1, <1>3, WrittenMoves DEF Receive, IInv, daemon, shared, http
<1>4. ASSUME UNCHANGED <<cas, executed, handled, loop, client, down, received>> PROVE Counts'
  BY <1>1, <1>4 DEF Written
<1> USE DEF daemon, shared, http, remote, vars
<1>5. CASE NoWorker \/ Launch \/ HandshakeFails
  BY <1>4, <1>5 DEF NoWorker, Launch, HandshakeFails
<1>6. CASE Connect \/ CampaignEnds \/ ReadTimesOut \/ WorkerCrashes
  BY <1>4, <1>6 DEF Connect, CampaignEnds, ReadTimesOut, WorkerCrashes
<1>7. CASE \E kind \in {"intent", "malformed"} : Propose(kind)
  BY <1>4, <1>7 DEF Propose
<1>8. CASE \E kind \in {"skipped", "ending"} : Notify(kind)
  BY <1>4, <1>8 DEF Notify
<1>9. CASE UNCHANGED vars
  BY <1>4, <1>9
<1> QED
  BY <1>2, <1>3, <1>5, <1>6, <1>7, <1>8, <1>9 DEF Boot, Worker

\* The loop stores or counts nothing while it waits, reads and converts: the
\* frame in hand is not in the store before the broker is asked.
LEMMA LoopQuietCounts ==
  ASSUME IInv, Counts, LoopLock \/ LoopRead \/ LoopReadFails \/ LoopConvert \/ LoopPersist
  PROVE  Counts'
<1>1. /\ UNCHANGED <<cas, executed, handled, client, down, received>>
      /\ loop.pc \in {"lock", "read", "convert", "persist"}
  BY DEF LoopLock, LoopRead, LoopReadFails, LoopConvert, LoopPersist, http, remote
<1>2. \/ loop.pc \in {"lock", "read", "convert"} /\ loop'.pc \in {"read", "lock", "convert", "ended", "lab"}
      \/ loop.pc = "convert" /\ loop'.pc = "persist" /\ loop'.id = loop.id
      \/ loop.pc = "persist" /\ loop'.pc = "count" /\ loop'.id = loop.id
  <2>1. CASE LoopLock
    BY <2>1, LoopMoves DEF LoopLock
  <2>2. CASE LoopRead
    <3> DEFINE a == After(Head(up).kind)
               b == At("convert")
    <3>1. a \in {"convert", "lock", "ended"} /\ loop.pc = "read"
      BY <2>2 DEF After, LoopRead
    <3>2. loop' = IF a # "convert" THEN At(a)
                  ELSE [b EXCEPT !.id = Head(up).id, !.kind = Head(up).kind]
      BY <2>2 DEF LoopRead
    <3>3. At(a).pc = a /\ b.pc = "convert"
          /\ b \in [pc : {"convert"}, id : {0}, kind : {"skipped"}, decision : {"DENY"}]
      BY AtFields
    <3> HIDE DEF a, b
    <3>4. loop'.pc = a
      BY <3>2, <3>3
    <3> QED
      BY <3>1, <3>4
  <2>3. CASE LoopReadFails
    BY <2>3, AtFields DEF LoopReadFails
  <2>4. CASE LoopConvert
    <3>1. CASE loop.kind = "malformed"
      BY <2>4, <3>1, LoopAnswered DEF LoopConvert, Decisions
    <3>2. CASE loop.kind # "malformed"
      BY <2>4, <3>2, LoopMoves DEF LoopConvert
    <3> QED
      BY <3>1, <3>2
  <2>5. CASE LoopPersist
    BY <2>5, LoopMoves DEF LoopPersist
  <2> QED
    BY <2>1, <2>2, <2>3, <2>4, <2>5
<1>3. loop.pc = "convert" => loop.id \notin cas
  BY NotYetStored
<1>4. UNCHANGED <<Uncounted, Answered, Written>>
  <2>1. Uncounted' = Uncounted
    BY <1>1, <1>2, <1>3 DEF Uncounted
  <2> QED
    BY <1>1, <2>1 DEF Answered, Written
<1> QED
  BY <1>1, <1>2, <1>4, NothingCounted

\* What the broker stored for the frame in hand is on its way to the counter.
LEMMA LoopExecuteCounts ==
  ASSUME IInv, Counts, NEW outcome \in Outcomes, LoopExecute(outcome)
  PROVE  Counts'
<1>1. /\ loop.pc = "lab" /\ cas' = cas \cup (IF outcome = "done" THEN {loop.id} ELSE {})
      /\ loop' = [loop EXCEPT !.pc = "persist", !.decision = Decision(outcome)]
      /\ UNCHANGED <<executed, handled, client, down, received>>
  BY DEF LoopExecute, Execute, http, remote
<1>2. loop'.pc = "persist" /\ loop'.id = loop.id
  BY <1>1, LoopAnswered DEF Decision, Decisions
<1>3. loop.id \notin cas /\ loop.id \notin Clients
  BY <1>1, NotYetStored
<1>4. cas' \ Uncounted' = cas \ Uncounted
  BY <1>1, <1>2, <1>3 DEF Uncounted
<1>5. IsFiniteSet(cas')
  <2>1. cas' = cas \cup {loop.id} \/ cas' = cas
    BY <1>1
  <2> QED
    BY <2>1, FS_AddElement, Zenon DEF Counts
<1>6. UNCHANGED <<Answered, Written>>
  BY <1>1 DEF Answered, Written
<1> QED
  BY <1>1, <1>2, <1>4, <1>5, <1>6 DEF Counts

\* One execution less is uncounted when the counter is told it was allowed.
LEMMA OneMoreCounted ==
  ASSUME IInv, Counts, NEW id, Uncounted' = Uncounted \ {id}, NEW allowed \in BOOLEAN,
         allowed <=> id \in cas, id \in cas => id \in Uncounted,
         executed' = executed + (IF allowed THEN 1 ELSE 0),
         UNCHANGED <<cas, handled, Written, Answered>>,
         \/ loop.pc # "handled" /\ loop'.pc # "handled"
         \/ UNCHANGED loop
  PROVE  Counts'
<1>1. IsFiniteSet(cas \ Uncounted) /\ executed = Cardinality(cas \ Uncounted) /\ executed \in Nat
  BY FS_Subset DEF Counts, IInv, TypeOK
<1>2. executed' = Cardinality(cas' \ Uncounted')
  <2>1. CASE id \in cas
    <3>1. cas' \ Uncounted' = (cas \ Uncounted) \cup {id} /\ id \notin cas \ Uncounted
      BY <2>1
    <3>2. Cardinality(cas' \ Uncounted') = Cardinality(cas \ Uncounted) + 1
      BY <1>1, <3>1, FS_AddElement
    <3> QED
      BY <1>1, <2>1, <3>2
  <2>2. CASE id \notin cas
    <3>1. cas' \ Uncounted' = cas \ Uncounted
      BY <2>2
    <3>2. executed' = executed
      BY <1>1, <2>2
    <3> QED
      BY <1>1, <3>1, <3>2, Zenon
  <2> QED
    BY <2>1, <2>2
<1> QED
  BY <1>2 DEF Counts

\* The execution of the frame in hand is counted.
LEMMA LoopCountCounts ==
  ASSUME IInv, Counts, LoopCount
  PROVE  Counts'
<1>1. /\ loop.pc = "count" /\ loop' = [loop EXCEPT !.pc = "write"]
      /\ executed' = executed + (IF loop.decision = "ALLOW" THEN 1 ELSE 0)
      /\ UNCHANGED <<cas, handled, client, down, received>>
  BY DEF LoopCount, http, remote
<1>2. loop'.pc = "write" /\ loop'.id = loop.id /\ loop.id \notin Clients
  BY <1>1, LoopMoves, LoopFacts
<1>3. loop.decision = "ALLOW" <=> loop.id \in cas
  BY <1>1 DEF IInv, Order
<1>4. Uncounted' = Uncounted \ {loop.id} /\ (loop.id \in cas => loop.id \in Uncounted)
  BY <1>1, <1>2 DEF Uncounted
<1>5. UNCHANGED <<Written, Answered>>
  BY <1>1 DEF Written, Answered
<1> DEFINE allowed == loop.decision = "ALLOW"
<1>6. allowed \in BOOLEAN /\ (allowed <=> loop.id \in cas)
      /\ executed' = executed + (IF allowed THEN 1 ELSE 0)
  BY <1>1, <1>3
<1> HIDE DEF allowed
<1> QED
  BY <1>1, <1>2, <1>4, <1>5, <1>6, OneMoreCounted

\* The result is written once, or not at all.
LEMMA LoopWriteCounts ==
  ASSUME IInv, Counts, LoopWrite
  PROVE  Counts'
<1> DEFINE r == [id |-> loop.id, decision |-> loop.decision]
<1>1. loop.pc = "write" /\ UNCHANGED <<cas, executed, handled, client, received>>
  BY DEF LoopWrite, http
<1>2. loop.id \in Frames /\ r \in Turn /\ r.id = loop.id
  BY <1>1, LoopFacts, Zenon DEF IInv, Order, Turn
<1>3. CASE loop' = [loop EXCEPT !.pc = "handled"] /\ down' = Append(down, r)
  <2> HIDE DEF r
  <2>1. loop'.pc = "handled"
    BY <1>3, LoopMoves
  <2>2. UNCHANGED <<Uncounted, Answered>>
    BY <1>1, <2>1 DEF Uncounted, Answered
  <2>3. Written' = Written \cup {r}
    BY <1>1, <1>2, <1>3, WrittenGrows, HelloIsNoTurn DEF IInv
  <2>4. r \notin Written
    <3>1. \A t \in Written : t.id < loop.id
      BY <1>1, Zenon DEF IInv, Order
    <3> QED
      BY <1>2, <3>1, LoopFacts
  <2>5. IsFiniteSet(Written') /\ Cardinality(Written') = Cardinality(Written) + 1
    BY <2>3, <2>4, FS_AddElement DEF Counts
  <2>6. Cardinality(Written) \in Nat /\ Cardinality(Answered) \in Nat /\ handled \in Nat
    BY FS_CardinalityType DEF Counts, IInv, TypeOK
  <2>7. handled = Cardinality(Written) + Cardinality(Answered)
    BY <1>1, <2>6 DEF Counts
  <2>8. handled + 1 = Cardinality(Written') + Cardinality(Answered)
    BY <2>5, <2>6, <2>7
  <2> QED
    BY <1>1, <2>1, <2>2, <2>5, <2>8 DEF Counts
<1>4. CASE loop' = At("ended") /\ down' = down
  <2>1. loop'.pc = "ended"
    BY <1>4, AtFields
  <2>2. UNCHANGED <<Uncounted, Answered, Written>>
    BY <1>1, <1>4, <2>1 DEF Uncounted, Answered, Written
  <2> QED
    BY <1>1, <2>1, <2>2, NothingCounted
<1> QED
  BY <1>3, <1>4 DEF LoopWrite

\* The result that was written is counted.
LEMMA LoopHandledCounts ==
  ASSUME IInv, Counts, LoopHandled
  PROVE  Counts'
<1>1. /\ loop.pc = "handled" /\ handled' = handled + 1 /\ loop'.pc = "lock"
      /\ UNCHANGED <<cas, executed, client, down, received>>
  BY AtFields DEF LoopHandled, http, remote
<1>2. UNCHANGED <<Uncounted, Answered, Written>>
  BY <1>1 DEF Uncounted, Answered, Written
<1>3. handled \in Nat
  BY DEF IInv, TypeOK
<1> QED
  BY <1>1, <1>2, <1>3 DEF Counts

-----------------------------------------------------------------------------
\* A handler that moves between points the counters do not tell apart.
LEMMA HandlerQuietCounts ==
  ASSUME IInv, Counts, NEW c \in Clients, NEW pc \in {"new"} \cup Waiting \cup Finished,
         Step(c, pc), UNCHANGED <<cas, executed, handled, loop, remote>>,
         client[c] \in {"receipt", "uncounted"} <=> pc \in {"receipt", "uncounted"},
         client[c] = "answered" <=> pc = "answered"
  PROVE  Counts'
<1>1. client'[c] = pc /\ \A d \in Clients \ {c} : client'[d] = client[d]
  BY ClientMoves
<1>2. UNCHANGED <<Uncounted, Answered, Written>>
  <2>1. Uncounted' = Uncounted
    BY <1>1 DEF Uncounted
  <2> QED
    BY <1>1, <2>1 DEF Answered, Written, remote
<1> QED
  BY <1>2, NothingCounted

\* What the broker stored for a client is on its way to the counter, or lost to it.
LEMMA ToolExecuteCounts ==
  ASSUME IInv, Counts, NEW c \in Clients, NEW outcome \in Outcomes, ToolExecute(c, outcome)
  PROVE  Counts'
<1> DEFINE pc == IF client[c] = "lab" THEN "receipt" ELSE "uncounted"
<1>1. /\ client[c] \in {"lab", "orphan"} /\ Step(c, pc)
      /\ cas' = cas \cup (IF outcome = "done" THEN {c} ELSE {})
      /\ UNCHANGED <<executed, handled, loop, down, received>>
  BY DEF ToolExecute, Execute, remote
<1>2. pc \in {"receipt", "uncounted"}
  OBVIOUS
<1> HIDE DEF pc
<1>3. client'[c] = pc /\ \A d \in Clients \ {c} : client'[d] = client[d]
  BY <1>1, <1>2, ClientMoves DEF Waiting, Finished
<1>4. c \notin cas /\ c # loop.id
  BY <1>1, ClientFacts DEF IInv, Replies
<1>5. cas' \ Uncounted' = cas \ Uncounted
  BY <1>1, <1>2, <1>3, <1>4 DEF Uncounted
<1>6. IsFiniteSet(cas')
  <2>1. cas' = cas \cup {c} \/ cas' = cas
    BY <1>1
  <2> QED
    BY <2>1, FS_AddElement, Zenon DEF Counts
<1>7. UNCHANGED <<Answered, Written>>
  BY <1>1, <1>2, <1>3 DEF Answered, Written
<1> QED
  BY <1>1, <1>5, <1>6, <1>7 DEF Counts

\* A client's execution is counted.
LEMMA ToolCountCounts ==
  ASSUME IInv, Counts, NEW c \in Clients, ToolCount(c)
  PROVE  Counts'
<1>1. /\ client[c] = "receipt" /\ Step(c, "counted")
      /\ executed' = executed + (IF reply[c] = "ALLOW" THEN 1 ELSE 0)
      /\ UNCHANGED <<cas, handled, loop, down, received>>
  BY DEF ToolCount, remote
<1>2. client'[c] = "counted" /\ \A d \in Clients \ {c} : client'[d] = client[d]
  BY <1>1, ClientMoves DEF Waiting
<1>3. c # loop.id /\ (reply[c] = "ALLOW" <=> c \in cas)
  BY <1>1, ClientFacts DEF IInv, Replies
<1>4. Uncounted' = Uncounted \ {c} /\ (c \in cas => c \in Uncounted)
  BY <1>1, <1>2, <1>3 DEF Uncounted
<1>5. UNCHANGED <<Written, Answered>>
  BY <1>1, <1>2 DEF Written, Answered
<1> DEFINE allowed == reply[c] = "ALLOW"
<1>6. allowed \in BOOLEAN /\ (allowed <=> c \in cas)
      /\ executed' = executed + (IF allowed THEN 1 ELSE 0)
  BY <1>1, <1>3
<1> HIDE DEF allowed
<1> QED
  BY <1>1, <1>4, <1>5, <1>6, OneMoreCounted

\* A client is answered.
LEMMA ToolHandledCounts ==
  ASSUME IInv, Counts, NEW c \in Clients, ToolHandled(c)
  PROVE  Counts'
<1>1. /\ client[c] = "counted" /\ Step(c, "answered") /\ handled' = handled + 1
      /\ UNCHANGED <<cas, executed, loop, down, received>>
  BY DEF ToolHandled, remote
<1>2. client'[c] = "answered" /\ \A d \in Clients \ {c} : client'[d] = client[d]
  BY <1>1, ClientMoves DEF Finished
<1>3. UNCHANGED <<Uncounted, Written>>
  <2>1. Uncounted' = Uncounted
    BY <1>1, <1>2 DEF Uncounted
  <2> QED
    BY <1>1, <2>1 DEF Written
<1>4. Answered' = Answered \cup {c} /\ c \notin Answered
  BY <1>1, <1>2 DEF Answered
<1>5. IsFiniteSet(Answered') /\ Cardinality(Answered') = Cardinality(Answered) + 1
  BY <1>4, FS_AddElement DEF Counts
<1>6. Cardinality(Written) \in Nat /\ Cardinality(Answered) \in Nat /\ handled \in Nat
  BY FS_CardinalityType DEF Counts, IInv, TypeOK
<1>7. handled + (IF loop.pc = "handled" THEN 1 ELSE 0)
        = Cardinality(Written) + Cardinality(Answered)
  BY DEF Counts
<1>8. handled' + (IF loop.pc = "handled" THEN 1 ELSE 0)
        = Cardinality(Written) + Cardinality(Answered')
  BY <1>1, <1>5, <1>6, <1>7
<1> QED
  BY <1>1, <1>3, <1>5, <1>8 DEF Counts

\* A handler that was counted or answers nothing, and one whose client leaves.
LEMMA HandlerCounts ==
  ASSUME IInv, Counts, NEW c \in Clients, Arrive(c) \/ Serve(c) \/ ClientLeaves(c)
  PROVE  Counts'
<1> USE HandlerQuietCounts DEF shared, Waiting, Finished
<1>1. CASE AnswerAtOnce(c) \/ FixtureCampaign(c)
  BY <1>1 DEF AnswerAtOnce, FixtureCampaign, New
<1>2. CASE ToolIntent(c) \/ Health(c)
  BY <1>2 DEF ToolIntent, Health, New
<1>3. CASE FixtureDone(c) \/ HealthLab(c) \/ HealthReport(c)
  BY <1>3 DEF FixtureDone, HealthLab, HealthReport
<1>4. CASE ClientLeaves(c)
  <2> DEFINE pc == LeftAt(client[c])
  <2>1. /\ client[c] \in {"health", "report", "lab", "receipt", "counted", "campaign"}
        /\ Step(c, pc) /\ UNCHANGED <<cas, executed, handled, loop, remote>>
    BY <1>4 DEF ClientLeaves
  <2>2. /\ pc \in {"orphan", "uncounted", "unhandled", "left"}
        /\ client[c] = "receipt" <=> pc = "uncounted"
    BY DEF LeftAt
  <2> HIDE DEF pc
  <2> QED
    BY <2>1, <2>2
<1>5. CASE \E outcome \in Outcomes : ToolExecute(c, outcome)
  BY <1>5, ToolExecuteCounts
<1> QED
  BY <1>1, <1>2, <1>3, <1>4, <1>5, ToolCountCounts, ToolHandledCounts DEF Arrive, Serve

-----------------------------------------------------------------------------
\* The counts are right at all times.
THEOREM DaemonCounts == Spec => []Counts
<1>1. Init => Counts
  <2> SUFFICES ASSUME Init PROVE Counts
    OBVIOUS
  <2>1. IsFiniteSet({}) /\ Cardinality({}) = 0
    BY FS_EmptySet
  <2>2. cas = {} /\ executed = 0 /\ handled = 0 /\ loop.pc = "off"
    BY AtFields DEF Init
  <2>3. cas \ Uncounted = {} /\ Written = {} /\ Answered = {}
    BY <2>2 DEF Init, Written, Answered, Range
  <2> QED
    BY <2>1, <2>2, <2>3 DEF Counts
<1>2. IInv /\ Counts /\ [Next]_vars => Counts'
  <2> SUFFICES ASSUME IInv, Counts, [Next]_vars PROVE Counts'
    OBVIOUS
  <2>1. CASE Loop
    <3>1. CASE \E outcome \in Outcomes : LoopExecute(outcome)
      BY <3>1, LoopExecuteCounts
    <3> QED
      BY <2>1, <3>1, LoopQuietCounts, LoopCountCounts, LoopWriteCounts, LoopHandledCounts
      DEF Loop
  <2>2. CASE \E c \in Clients : Arrive(c) \/ Serve(c) \/ ClientLeaves(c)
    BY <2>2, HandlerCounts
  <2>3. CASE Quiet
    BY <2>3, OutsideCounts DEF Quiet
  <2> QED
    BY <2>1, <2>2, <2>3, OutsideCounts DEF Next
<1> QED
  BY <1>1, <1>2, DaemonInvariant, PTL DEF Spec

\* For any clients and any frames: intents_executed and intents_handled are
\* short of the artifacts and of the results written only by what is in flight
\* or was abandoned by its client (handle_worker_intents, tool_intent).
THEOREM CountersAlwaysAccountable == Spec => []CountersAccountable
<1>1. Counts => CountersAccountable
  <2> SUFFICES ASSUME Counts PROVE CountersAccountable
    OBVIOUS
  <2>1. IsFiniteSet(cas) /\ executed = Cardinality(cas \ Uncounted) /\ Uncounted \subseteq cas
    BY DEF Counts, Uncounted
  <2>2. Cardinality(cas \ Uncounted) = Cardinality(cas) - Cardinality(cas \cap Uncounted)
    BY <2>1, FS_Difference
  <2>3. Cardinality(cas \cap Uncounted) = Cardinality(Uncounted)
    <3>1. cas \cap Uncounted = Uncounted
      BY <2>1
    <3> QED
      BY <3>1, Zenon
  <2>4. Cardinality(cas) \in Nat /\ Cardinality(Uncounted) \in Nat
    BY <2>1, FS_Subset, FS_CardinalityType
  <2>5. executed + Cardinality(Uncounted) = Cardinality(cas)
    BY <2>1, <2>2, <2>3, <2>4
  <2> QED
    BY <2>5 DEF CountersAccountable, Counts
<1> QED
  BY <1>1, DaemonCounts, PTL
=============================================================================
