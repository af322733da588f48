--------------------------- MODULE Streams_proofs ---------------------------
(***************************************************************************)
(* Theorems about EventBus and SseWire.  The bus: each listener is given   *)
(* what is due to it, once and in order, whatever subscribes, emits and    *)
(* disconnects in between.  The wire: the caller is given what the server  *)
(* wrote, however the stream is cut into chunks.                           *)
(***************************************************************************)
EXTENDS Streams, SequenceTheorems, TLAPS

(* The vocabulary of EventBus for any queue q and any history em. *)
TasksOf(q, l) == {i \in DOMAIN q : q[i][1] = l}
Pending(q, l) == {q[i][2] : i \in TasksOf(q, l)}

Sorted(q, l, given) ==
  /\ \A i, j \in DOMAIN given : i < j => given[i] < given[j]
  /\ \A i, j \in TasksOf(q, l) : i < j => q[i][2] < q[j][2]
  /\ \A i \in DOMAIN given, n \in Pending(q, l) : given[i] < n

DueIn(em, l) == {n \in DOMAIN em : /\ since[l] < n /\ n <= until[l]
                                   /\ l \in Clients \/ em[n] \in TypesOf(l)}

\* What was given is the part of what is due up to its last one.
Prefixed(em, l, given) ==
  /\ Range(given) \subseteq DueIn(em, l)
  /\ \A n \in DueIn(em, l), m \in Range(given) : n < m => n \in Range(given)

\* All of what is due was given or waits.
Complete(q, em, l, given) == Range(given) \cup Pending(q, l) = DueIn(em, l)

Injective(seq) == \A i, j \in DOMAIN seq : seq[i] = seq[j] => i = j
Hears(l, type) == Subscribed(l) /\ (l \in Clients \/ type \in TypesOf(l))

\* The two listener tables hold who is subscribed, once.
Tables ==
  /\ \A type \in EventTypes :
       /\ Injective(exact[type])
       /\ Range(exact[type]) = {s \in Services : Hears(s, type)}
  /\ Injective(wildcard)
  /\ Range(wildcard) = {c \in Clients : Subscribed(c)}
  /\ \A c \in Clients : Subscribed(c) <=> stream[c] \in {"open", "cancelled"}

\* No listener's time lies in the future, no queued event either.
Times ==
  /\ Len(emitted) <= MaxEmitted
  /\ \A l \in Listeners : since[l] <= Len(emitted) /\ (Subscribed(l) \/ until[l] <= Len(emitted))
  /\ \A i \in DOMAIN microtasks : microtasks[i][2] <= Len(emitted)

ServiceInv(s) == Sorted(microtasks, s, handled[s]) /\ Complete(microtasks, emitted, s, handled[s])

ClientInv(c) ==
  /\ Sorted(microtasks, c, written[c])
  /\ Prefixed(emitted, c, written[c])
  /\ stream[c] \in {"none", "open"} =>
       ~writerClosed[c] /\ Complete(microtasks, emitted, c, written[c])
  /\ stream[c] = "none" => until[c] = 0

BusInv == /\ BusTypeOK /\ Tables /\ Times
          /\ \A s \in Services : ServiceInv(s)
          /\ \A c \in Clients : ClientInv(c)

------------------------------------------------------------------------------
LEMMA BusInitInv == BusInit => BusInv
<1> SUFFICES ASSUME BusInit PROVE BusInv
  OBVIOUS
<1>0. MaxEmitted \in Nat /\ Forever # 0 /\ 0 \in 0 .. Forever /\ 0 \in 0 .. MaxEmitted
  BY BusAssumption DEF Forever
<1>1. BusTypeOK
  BY <1>0 DEF BusInit, BusTypeOK
<1>2. \A l \in Listeners : ~Subscribed(l)
  BY <1>0 DEF BusInit, Subscribed
<1>3. Tables
  BY <1>2 DEF BusInit, Tables, Injective, Hears, Range, Listeners
<1>4. Times
  BY <1>0 DEF BusInit, Times
<1>5. \A l \in Listeners : DueIn(emitted, l) = {} /\ Pending(microtasks, l) = {}
                           /\ TasksOf(microtasks, l) = {}
  BY DEF BusInit, DueIn, Pending, TasksOf
<1>6. \A l \in Listeners : Sorted(microtasks, l, <<>>)
  BY <1>5 DEF Sorted
<1>7. \A s \in Services : ServiceInv(s)
  BY <1>5, <1>6 DEF BusInit, ServiceInv, Complete, Range, Listeners
<1>8. \A c \in Clients : ClientInv(c)
  BY <1>5, <1>6 DEF BusInit, ClientInv, Complete, Prefixed, Range, Listeners
<1> QED
  BY <1>1, <1>3, <1>4, <1>7, <1>8 DEF BusInv

\* One emission queues one handler for every listener of the type.
LEMMA DispatchShape ==
  ASSUME BusTypeOK, Tables, NEW type \in EventTypes, NEW n \in Positions
  PROVE  /\ Dispatch(type, n) \in Seq(Listeners \X Positions)
         /\ \A i \in DOMAIN Dispatch(type, n) : Dispatch(type, n)[i][2] = n
         /\ \A i, j \in DOMAIN Dispatch(type, n) :
              Dispatch(type, n)[i][1] = Dispatch(type, n)[j][1] => i = j
         /\ \A l \in Listeners :
              (\E i \in DOMAIN Dispatch(type, n) : Dispatch(type, n)[i][1] = l) <=> Hears(l, type)
<1> DEFINE ex == exact[type]
           ls == ex \o wildcard
           d == Dispatch(type, n)
<1>1. ex \in Seq(Services) /\ wildcard \in Seq(Clients)
  BY DEF BusTypeOK
<1>2. /\ Injective(ex) /\ Range(ex) = {s \in Services : Hears(s, type)}
      /\ Injective(wildcard) /\ Range(wildcard) = {c \in Clients : Subscribed(c)}
  BY DEF Tables
<1> HIDE DEF ex
<1>3. /\ Len(ex) \in Nat /\ DOMAIN ex = 1 .. Len(ex)
      /\ Len(wildcard) \in Nat /\ DOMAIN wildcard = 1 .. Len(wildcard)
      /\ Len(ls) = Len(ex) + Len(wildcard)
      /\ \A i \in 1 .. Len(ls) : ls[i] = IF i <= Len(ex) THEN ex[i] ELSE wildcard[i - Len(ex)]
  BY <1>1
<1> HIDE DEF ls
<1>4. d = [i \in 1 .. Len(ls) |-> <<ls[i], n>>]
  BY DEF Dispatch, ls, ex
<1>5. \A i \in 1 .. Len(ls) : \/ i <= Len(ex) /\ i \in DOMAIN ex /\ ls[i] = ex[i]
                              \/ i > Len(ex) /\ i - Len(ex) \in DOMAIN wildcard
                                 /\ ls[i] = wildcard[i - Len(ex)]
  BY <1>3
<1>6. \A i \in 1 .. Len(ls) : ls[i] \in Listeners
  BY <1>1, <1>5 DEF Listeners
<1>7. d \in Seq(Listeners \X Positions) /\ DOMAIN d = 1 .. Len(ls)
  <2>1. \A i \in 1 .. Len(ls) : <<ls[i], n>> \in Listeners \X Positions
    BY <1>6
  <2> QED
    BY <2>1, <1>3, <1>4
<1>8. \A i \in DOMAIN d : d[i][1] = ls[i] /\ d[i][2] = n
  BY <1>4, <1>7
<1>9. \A i, j \in 1 .. Len(ls) : ls[i] = ls[j] => i = j
  <2> SUFFICES ASSUME NEW i \in 1 .. Len(ls), NEW j \in 1 .. Len(ls), ls[i] = ls[j]
               PROVE  i = j
    OBVIOUS
  <2>0. i \in Nat /\ j \in Nat
    BY <1>3
  <2>1. CASE i <= Len(ex) /\ j <= Len(ex)
    BY <2>1, <1>2, <1>3, <1>5 DEF Injective
  <2>2. CASE i > Len(ex) /\ j > Len(ex)
    <3>1. i - Len(ex) = j - Len(ex)
      BY <2>2, <2>0, <1>2, <1>3, <1>5 DEF Injective
    <3> QED
      BY <3>1, <2>0, <1>3
  <2>3. ASSUME NEW a \in 1 .. Len(ls), NEW b \in 1 .. Len(ls), a <= Len(ex), b > Len(ex)
        PROVE  ls[a] # ls[b]
    <3>1. ls[a] \in Services /\ ls[b] \in Clients
      BY <2>3, <1>1, <1>3, <1>5
    <3> QED
      BY <3>1, BusAssumption
  <2> QED
    BY <2>0, <2>1, <2>2, <2>3, <1>3
<1>10. ASSUME NEW l \in Listeners
       PROVE  (\E i \in 1 .. Len(ls) : ls[i] = l) <=> Hears(l, type)
  <2>1. ASSUME NEW i \in 1 .. Len(ls), ls[i] = l
        PROVE  Hears(l, type)
    <3>1. l \in Range(ex) \/ l \in Range(wildcard)
      BY <2>1, <1>5 DEF Range
    <3> QED
      BY <3>1, <1>2 DEF Hears
  <2>2. ASSUME Hears(l, type)
        PROVE  \E i \in 1 .. Len(ls) : ls[i] = l
    <3>1. CASE l \in Services
      <4>1. PICK i \in DOMAIN ex : ex[i] = l
        BY <2>2, <3>1, <1>2 DEF Range
      <4>2. i \in 1 .. Len(ls) /\ ls[i] = l
        BY <4>1, <1>3
      <4> QED
        BY <4>2
    <3>2. CASE l \in Clients
      <4>1. PICK i \in DOMAIN wildcard : wildcard[i] = l
        BY <2>2, <3>2, <1>2 DEF Range, Hears
      <4>2. i + Len(ex) \in 1 .. Len(ls) /\ ls[i + Len(ex)] = l
        BY <4>1, <1>3
      <4> QED
        BY <4>2
    <3> QED
      BY <3>1, <3>2 DEF Listeners
  <2> QED
    BY <2>1, <2>2
<1> QED
  BY <1>7, <1>8, <1>9, <1>10

\* A queue that grows by one event n, after all the others.
LEMMA QueueGrows ==
  ASSUME NEW q \in Seq(Listeners \X Positions), NEW d \in Seq(Listeners \X Positions),
         NEW n \in Positions, NEW l \in Listeners, NEW given \in Seq(Positions),
         \A i \in DOMAIN q : q[i][2] < n,
         \A i \in DOMAIN given : given[i] < n,
         \A i \in DOMAIN d : d[i][2] = n,
         \A i, j \in DOMAIN d : d[i][1] = d[j][1] => i = j
  PROVE  /\ Pending(q \o d, l) = Pending(q, l) \cup
              (IF \E i \in DOMAIN d : d[i][1] = l THEN {n} ELSE {})
         /\ Sorted(q, l, given) => Sorted(q \o d, l, given)
<1> DEFINE q2 == q \o d
<1>1. /\ Len(q) \in Nat /\ DOMAIN q = 1 .. Len(q) /\ Len(d) \in Nat /\ DOMAIN d = 1 .. Len(d)
      /\ DOMAIN q2 = 1 .. (Len(q) + Len(d))
      /\ \A i \in DOMAIN q2 : q2[i] = IF i <= Len(q) THEN q[i] ELSE d[i - Len(q)]
  OBVIOUS
<1> HIDE DEF q2
<1>2. \A i \in DOMAIN q2 : \/ i \in DOMAIN q /\ q2[i] = q[i]
                           \/ i > Len(q) /\ i - Len(q) \in DOMAIN d /\ q2[i] = d[i - Len(q)]
  BY <1>1
<1>3. \A i \in DOMAIN q : i \in DOMAIN q2 /\ q2[i] = q[i]
  BY <1>1
<1>4. ASSUME NEW i \in DOMAIN d
      PROVE  i + Len(q) \in DOMAIN q2 /\ q2[i + Len(q)] = d[i]
  <2>1. i \in Nat /\ i >= 1 /\ i <= Len(d)
    BY <1>1
  <2>2. i + Len(q) \in DOMAIN q2
    BY <2>1, <1>1
  <2>3. ~(i + Len(q) <= Len(q)) /\ (i + Len(q)) - Len(q) = i
    BY <2>1, <1>1
  <2> QED
    BY <2>2, <2>3, <1>1
<1>5. Pending(q2, l) = Pending(q, l) \cup (IF \E i \in DOMAIN d : d[i][1] = l THEN {n} ELSE {})
  <2>1. ASSUME NEW m \in Pending(q2, l)
        PROVE  m \in Pending(q, l) \/ (m = n /\ \E i \in DOMAIN d : d[i][1] = l)
    <3>1. PICK i \in DOMAIN q2 : q2[i][1] = l /\ q2[i][2] = m
      BY <2>1 DEF Pending, TasksOf
    <3> QED
      BY <3>1, <1>2 DEF Pending, TasksOf
  <2>2. Pending(q, l) \subseteq Pending(q2, l)
    BY <1>3 DEF Pending, TasksOf
  <2>3. ASSUME NEW i \in DOMAIN d, d[i][1] = l
        PROVE  n \in Pending(q2, l)
    BY <2>3, <1>4 DEF Pending, TasksOf
  <2> QED
    BY <2>1, <2>2, <2>3
<1>6. ASSUME Sorted(q, l, given)
      PROVE  Sorted(q2, l, given)
  <2>1. ASSUME NEW i \in TasksOf(q2, l), NEW j \in TasksOf(q2, l), i < j
        PROVE  q2[i][2] < q2[j][2]
    <3>0. i \in DOMAIN q2 /\ j \in DOMAIN q2 /\ q2[i][1] = l /\ q2[j][1] = l
      BY DEF TasksOf
    <3>1. i \in Nat /\ j \in Nat
      BY <3>0, <1>1
    <3>2. CASE j \in DOMAIN q
      <4>1. i \in DOMAIN q
        BY <2>1, <3>0, <3>1, <3>2, <1>1
      <4> QED
        BY <2>1, <3>0, <3>2, <4>1, <1>3, <1>6 DEF Sorted, TasksOf
    <3>3. CASE j \notin DOMAIN q
      <4>1. j - Len(q) \in DOMAIN d /\ q2[j] = d[j - Len(q)]
        BY <3>0, <3>3, <1>2
      <4>2. i \in DOMAIN q
        <5>1. ASSUME i \notin DOMAIN q
              PROVE  FALSE
          <6>1. i - Len(q) \in DOMAIN d /\ q2[i] = d[i - Len(q)]
            BY <3>0, <5>1, <1>2
          <6>2. i - Len(q) = j - Len(q)
            BY <3>0, <4>1, <6>1
          <6> QED
            BY <6>2, <2>1, <3>1, <1>1
        <5> QED
          BY <5>1
      <4> QED
        BY <4>1, <4>2, <1>3
    <3> QED
      BY <3>2, <3>3
  <2>2. \A i \in DOMAIN given, m \in Pending(q2, l) : given[i] < m
    BY <1>5, <1>6 DEF Sorted
  <2> QED
    BY <2>1, <2>2, <1>6 DEF Sorted
<1> QED
  BY <1>5, <1>6 DEF q2

\* What one more event makes due.
LEMMA HistoryGrows ==
  ASSUME BusTypeOK, NEW em \in Seq(EventTypes), NEW type \in EventTypes, NEW l \in Listeners,
         Len(em) < MaxEmitted, since[l] <= Len(em), Subscribed(l) \/ until[l] <= Len(em)
  PROVE  DueIn(Append(em, type), l) =
           DueIn(em, l) \cup (IF Hears(l, type) THEN {Len(em) + 1} ELSE {})
<1> DEFINE n == Len(em) + 1
           em2 == Append(em, type)
<1>1. /\ Len(em) \in Nat /\ DOMAIN em = 1 .. Len(em) /\ DOMAIN em2 = 1 .. n
      /\ em2[n] = type /\ \A i \in DOMAIN em : em2[i] = em[i]
  OBVIOUS
<1>2. since[l] \in Nat /\ until[l] \in Nat /\ MaxEmitted \in Nat
  BY BusAssumption DEF BusTypeOK, Forever
<1>3. \A i \in DOMAIN em2 : i \in DOMAIN em \/ i = n
  BY <1>1
<1>4. n \notin DOMAIN em /\ \A i \in DOMAIN em : i \in DOMAIN em2
  BY <1>1
<1>5. n \in DOMAIN em2 /\ since[l] < n /\ (n <= until[l] <=> Subscribed(l))
  BY <1>1, <1>2, BusAssumption DEF Subscribed, Forever
<1> HIDE DEF em2, n
<1>6. \A i : i \in DueIn(em2, l) <=> i \in DueIn(em, l) \/ (i = n /\ Hears(l, type))
  BY <1>1, <1>3, <1>4, <1>5 DEF DueIn, Hears
<1> QED
  BY <1>6 DEF em2, n

\* A queue of the events of em, none of them from the future.
QueueOK(q, em) ==
  /\ em \in Seq(EventTypes) /\ q \in Seq(Listeners \X Positions)
  /\ \A i \in DOMAIN q : q[i][2] <= Len(em)
  /\ \A l \in Listeners : since[l] <= Len(em) /\ (Subscribed(l) \/ until[l] <= Len(em))

\* What a step from (q, em) to (q2, em2) keeps for every listener.
Carried(q, em, q2, em2) ==
  \A l \in Listeners : \A given \in Seq(Positions) :
    Range(given) \subseteq DueIn(em, l) =>
      /\ Sorted(q, l, given) => Sorted(q2, l, given)
      /\ Prefixed(em, l, given) => Prefixed(em2, l, given)
      /\ Complete(q, em, l, given) => Complete(q2, em2, l, given)

\* One emission: what it makes due, it queues, behind all that was queued.
LEMMA EmitOne ==
  ASSUME BusTypeOK, Tables, NEW em, NEW q, QueueOK(q, em), Len(em) < MaxEmitted,
         NEW type \in EventTypes,
         NEW em2, em2 = Append(em, type), NEW q2, q2 = q \o Dispatch(type, Len(em) + 1)
  PROVE  QueueOK(q2, em2) /\ Len(em2) = Len(em) + 1 /\ Carried(q, em, q2, em2)
<1> USE DEF QueueOK
<1> DEFINE n == Len(em) + 1
           d == Dispatch(type, n)
<1>0. Len(em) \in Nat /\ MaxEmitted \in Nat /\ n \in Positions /\ n \in Nat
  BY BusAssumption DEF Positions
<1>1. em2 \in Seq(EventTypes) /\ Len(em2) = n
  OBVIOUS
<1>2. /\ d \in Seq(Listeners \X Positions)
      /\ \A i \in DOMAIN d : d[i][2] = n
      /\ \A i, j \in DOMAIN d : d[i][1] = d[j][1] => i = j
      /\ \A l \in Listeners : (\E i \in DOMAIN d : d[i][1] = l) <=> Hears(l, type)
  BY <1>0, DispatchShape
<1> HIDE DEF d
<1>3. q2 = q \o d /\ q2 \in Seq(Listeners \X Positions)
  BY <1>2 DEF d
<1>4. \A i \in DOMAIN q2 : q2[i][2] <= n
  <2>1. \A i \in DOMAIN q2 : \/ i \in DOMAIN q /\ q2[i] = q[i]
                             \/ i - Len(q) \in DOMAIN d /\ q2[i] = d[i - Len(q)]
    BY <1>2, <1>3
  <2>2. \A i \in DOMAIN q : q[i][2] \in Nat /\ q[i][2] <= Len(em)
    <3>1. \A i \in DOMAIN q : q[i] \in Listeners \X Positions
      OBVIOUS
    <3> QED
      BY <3>1 DEF Positions
  <2>3. \A k \in Nat : k <= Len(em) => k <= n
    BY <1>0
  <2> QED
    BY <2>1, <2>2, <2>3, <1>0, <1>2
<1>5. \A l \in Listeners : since[l] <= n /\ (Subscribed(l) \/ until[l] <= n)
  <2>1. \A l \in Listeners : since[l] \in Nat /\ until[l] \in Nat
    BY BusAssumption DEF BusTypeOK, Forever
  <2> QED
    BY <2>1, <1>0
<1>6. ASSUME NEW l \in Listeners, NEW given \in Seq(Positions), Range(given) \subseteq DueIn(em, l)
      PROVE  /\ Sorted(q, l, given) => Sorted(q2, l, given)
             /\ Prefixed(em, l, given) => Prefixed(em2, l, given)
             /\ Complete(q, em, l, given) => Complete(q2, em2, l, given)
  <2>1. DueIn(em2, l) = DueIn(em, l) \cup (IF Hears(l, type) THEN {n} ELSE {})
    BY HistoryGrows
  <2>2. \A m \in DueIn(em, l) : m \in Nat /\ m < n
    <3>1. \A m \in DueIn(em, l) : m \in 1 .. Len(em)
      BY DEF DueIn
    <3> QED
      BY <3>1, <1>0
  <2>3. \A i \in DOMAIN given : given[i] \in Range(given) /\ given[i] < n
    <3>1. \A i \in DOMAIN given : given[i] \in Range(given)
      BY DEF Range
    <3> QED
      BY <3>1, <2>2, <1>6
  <2>4. \A i \in DOMAIN q : q[i][2] < n
    <3>1. \A i \in DOMAIN q : q[i] \in Listeners \X Positions
      OBVIOUS
    <3>2. \A i \in DOMAIN q : q[i][2] \in Nat
      BY <3>1 DEF Positions
    <3> QED
      BY <3>2, <1>0
  <2>5. /\ Pending(q2, l) = Pending(q, l) \cup (IF Hears(l, type) THEN {n} ELSE {})
        /\ Sorted(q, l, given) => Sorted(q2, l, given)
    <3>1. /\ Pending(q \o d, l) = Pending(q, l) \cup
               (IF \E i \in DOMAIN d : d[i][1] = l THEN {n} ELSE {})
          /\ Sorted(q, l, given) => Sorted(q \o d, l, given)
      <4> HIDE DEF n
      <4> QED
        BY <1>0, <1>2, <2>3, <2>4, QueueGrows
    <3> QED
      BY <3>1, <1>2, <1>3
  <2>6. Complete(q, em, l, given) => Complete(q2, em2, l, given)
    BY <2>1, <2>5 DEF Complete
  <2>7. Prefixed(em, l, given) => Prefixed(em2, l, given)
    <3> SUFFICES ASSUME Prefixed(em, l, given), NEW k \in DueIn(em2, l), NEW m \in Range(given),
                        k < m
                 PROVE  k \in Range(given)
      BY <2>1, <1>6 DEF Prefixed
    <3>1. m \in Nat /\ m < n
      BY <2>2, <1>6
    <3>2. k # n
      BY <3>1, <1>0
    <3> QED
      BY <3>2, <2>1 DEF Prefixed
  <2> QED
    BY <2>5, <2>6, <2>7
<1> QED
  BY <1>1, <1>3, <1>4, <1>5, <1>6 DEF Carried

\* A client that is not subscribed yet has nothing due, and then nothing waits for it.
LEMMA GivenIsDue ==
  ASSUME BusInv
  PROVE  /\ \A s \in Services : handled[s] \in Seq(Positions) /\ Range(handled[s]) \subseteq DueIn(emitted, s)
         /\ \A c \in Clients : written[c] \in Seq(Positions) /\ Range(written[c]) \subseteq DueIn(emitted, c)
  BY DEF BusInv, BusTypeOK, ServiceInv, ClientInv, Complete, Prefixed

\* A step that only emits: it keeps the invariant if it keeps the order, the
\* completeness and the prefixes of every listener.
LEMMA EmitKeeps ==
  ASSUME BusInv,
         UNCHANGED <<exact, wildcard, stream, writerClosed, written, handled, since, until>>,
         Len(emitted') <= MaxEmitted, QueueOK(microtasks', emitted'),
         Carried(microtasks, emitted, microtasks', emitted')
  PROVE  BusInv'
<1>1. BusTypeOK'
  BY DEF BusInv, BusTypeOK, QueueOK
<1>2. Tables' /\ Times'
  BY DEF BusInv, Tables, Hears, Subscribed, Times, QueueOK
<1>3. \A l, em : DueIn(em, l)' = DueIn(em', l)
  BY DEF DueIn
<1>4. ASSUME NEW s \in Services
      PROVE  ServiceInv(s)'
  <2>1. s \in Listeners /\ ServiceInv(s)
    BY DEF BusInv, Listeners
  <2>2. handled[s] \in Seq(Positions) /\ Range(handled[s]) \subseteq DueIn(emitted, s)
    BY GivenIsDue
  <2>3. Sorted(microtasks', s, handled[s]) /\ Complete(microtasks', emitted', s, handled[s])
    BY <2>1, <2>2 DEF ServiceInv, Carried
  <2> QED
    BY <2>3 DEF ServiceInv, Complete, DueIn, Sorted, Pending, TasksOf
<1>5. ASSUME NEW c \in Clients
      PROVE  ClientInv(c)'
  <2>1. c \in Listeners /\ ClientInv(c)
    BY DEF BusInv, Listeners
  <2>2. written[c] \in Seq(Positions) /\ Range(written[c]) \subseteq DueIn(emitted, c)
    BY GivenIsDue
  <2>3. /\ Sorted(microtasks', c, written[c])
        /\ Prefixed(emitted', c, written[c])
        /\ Complete(microtasks, emitted, c, written[c]) => Complete(microtasks', emitted', c, written[c])
    BY <2>1, <2>2 DEF ClientInv, Carried
  <2> QED
    BY <2>1, <2>3 DEF ClientInv, Complete, Prefixed, DueIn, Sorted, Pending, TasksOf
<1> QED
  BY <1>1, <1>2, <1>4, <1>5 DEF BusInv

LEMMA EmitFactInv ==
  ASSUME BusInv, EmitFact
  PROVE  BusInv'
<1>1. BusTypeOK /\ Tables /\ QueueOK(microtasks, emitted) /\ "fact:extracted" \in EventTypes
  BY DEF BusInv, BusTypeOK, Times, QueueOK, EventTypes
<1>2. Len(emitted) < MaxEmitted /\ Len(emitted) + 1 <= MaxEmitted
  BY <1>1, BusAssumption DEF EmitFact, QueueOK
<1>3. /\ QueueOK(microtasks', emitted') /\ Len(emitted') = Len(emitted) + 1
      /\ Carried(microtasks, emitted, microtasks', emitted')
  BY <1>1, <1>2, EmitOne DEF EmitFact
<1> QED
  BY <1>2, <1>3, EmitKeeps DEF EmitFact

LEMMA EmitStoredInv ==
  ASSUME BusInv, NEW type \in CaptureTypes, EmitStored(type)
  PROVE  BusInv'
<1> DEFINE em1 == Append(emitted, type)
           q1 == microtasks \o Dispatch(type, Len(emitted) + 1)
<1>1. /\ BusTypeOK /\ Tables /\ QueueOK(microtasks, emitted)
      /\ type \in EventTypes /\ "event:stored" \in EventTypes
  BY DEF BusInv, BusTypeOK, Times, QueueOK, EventTypes
<1>2. /\ Len(emitted) \in Nat /\ Len(emitted) < MaxEmitted /\ Len(emitted) + 1 < MaxEmitted
      /\ (Len(emitted) + 1) + 1 = Len(emitted) + 2 /\ Len(emitted) + 2 <= MaxEmitted
  BY <1>1, BusAssumption DEF EmitStored, QueueOK
<1>3. QueueOK(q1, em1) /\ Len(em1) = Len(emitted) + 1 /\ Carried(microtasks, emitted, q1, em1)
  BY <1>1, <1>2, EmitOne
<1>4. emitted' = Append(em1, "event:stored")
  BY <1>1 DEF EmitStored, QueueOK
<1>5. microtasks' = q1 \o Dispatch("event:stored", Len(em1) + 1)
  BY <1>2, <1>3 DEF EmitStored
<1>6. \A l \in Listeners : DueIn(emitted, l) \subseteq DueIn(em1, l)
  BY <1>1 DEF DueIn, QueueOK
<1> HIDE DEF em1, q1
<1>7. /\ QueueOK(microtasks', emitted') /\ Len(emitted') = Len(em1) + 1
      /\ Carried(q1, em1, microtasks', emitted')
  BY <1>1, <1>2, <1>3, <1>4, <1>5, EmitOne
<1>8. Carried(microtasks, emitted, microtasks', emitted')
  BY <1>3, <1>6, <1>7 DEF Carried
<1>9. Len(emitted') <= MaxEmitted
  BY <1>2, <1>3, <1>7
<1> QED
  BY <1>7, <1>8, <1>9, EmitKeeps DEF EmitStored

------------------------------------------------------------------------------
\* Running the first handler: the others keep their order.
LEMMA QueueShrinks ==
  ASSUME NEW q \in Seq(Listeners \X Positions), q # <<>>, NEW l \in Listeners,
         NEW given \in Seq(Positions)
  PROVE  /\ Tail(q) \in Seq(Listeners \X Positions)
         /\ q[1][1] \in Listeners /\ q[1][2] \in Positions
         /\ \A i \in DOMAIN Tail(q) : i + 1 \in DOMAIN q /\ Tail(q)[i] = q[i + 1]
         /\ q[1][1] # l => Pending(Tail(q), l) = Pending(q, l)
         /\ q[1][1] = l => Pending(Tail(q), l) \cup {q[1][2]} = Pending(q, l)
         /\ Sorted(q, l, given) => Sorted(Tail(q), l, given)
         /\ Sorted(q, l, given) /\ q[1][1] = l => Sorted(Tail(q), l, Append(given, q[1][2]))
<1> DEFINE t == Tail(q)
<1>1. /\ t \in Seq(Listeners \X Positions) /\ Len(q) \in Nat \ {0} /\ DOMAIN q = 1 .. Len(q)
      /\ DOMAIN t = 1 .. (Len(q) - 1) /\ \A i \in DOMAIN t : t[i] = q[i + 1]
  OBVIOUS
<1> HIDE DEF t
<1>2. \A i \in DOMAIN t : i + 1 \in DOMAIN q /\ t[i] = q[i + 1] /\ i \in Nat
  BY <1>1
<1>3. \A i \in DOMAIN q : i = 1 \/ (i - 1 \in DOMAIN t /\ q[i] = t[i - 1])
  <2> SUFFICES ASSUME NEW i \in DOMAIN q, i # 1
               PROVE  i - 1 \in DOMAIN t /\ q[i] = t[i - 1]
    OBVIOUS
  <2>1. i \in Nat /\ i - 1 \in 1 .. (Len(q) - 1) /\ (i - 1) + 1 = i
    BY <1>1
  <2> QED
    BY <2>1, <1>1
<1>4. 1 \in DOMAIN q /\ q[1][1] \in Listeners /\ q[1][2] \in Positions
  BY <1>1
<1>5. \A i \in TasksOf(t, l) : i + 1 \in TasksOf(q, l) /\ t[i] = q[i + 1] /\ i \in Nat /\ i >= 1
  BY <1>1, <1>2 DEF TasksOf
<1>6. Pending(t, l) \subseteq Pending(q, l)
  BY <1>5 DEF Pending
<1>7. ASSUME NEW m \in Pending(q, l)
      PROVE  m \in Pending(t, l) \/ (q[1][1] = l /\ m = q[1][2])
  <2>1. PICK i \in DOMAIN q : q[i][1] = l /\ q[i][2] = m
    BY <1>7 DEF Pending, TasksOf
  <2> QED
    BY <2>1, <1>3 DEF Pending, TasksOf
<1>8. q[1][1] # l => Pending(t, l) = Pending(q, l)
  BY <1>6, <1>7
<1>9. q[1][1] = l => Pending(t, l) \cup {q[1][2]} = Pending(q, l)
  BY <1>4, <1>6, <1>7 DEF Pending, TasksOf
<1>10. ASSUME Sorted(q, l, given)
       PROVE  Sorted(t, l, given)
  <2>1. \A i, j \in TasksOf(t, l) : i < j => t[i][2] < t[j][2]
    <3> SUFFICES ASSUME NEW i \in TasksOf(t, l), NEW j \in TasksOf(t, l), i < j
                 PROVE  t[i][2] < t[j][2]
      OBVIOUS
    <3>1. i + 1 < j + 1
      BY <1>5
    <3> QED
      BY <3>1, <1>5, <1>10 DEF Sorted
  <2> QED
    BY <2>1, <1>6, <1>10 DEF Sorted
<1>11. ASSUME Sorted(q, l, given), q[1][1] = l
       PROVE  Sorted(t, l, Append(given, q[1][2]))
  <2> DEFINE n == q[1][2]
             g2 == Append(given, n)
  <2>1. /\ Len(given) \in Nat /\ DOMAIN given = 1 .. Len(given) /\ DOMAIN g2 = 1 .. (Len(given) + 1)
        /\ g2[Len(given) + 1] = n /\ \A i \in DOMAIN given : g2[i] = given[i]
    BY <1>4
  <2>2. \A i \in DOMAIN given : given[i] < n
    BY <1>9, <1>11 DEF Sorted
  <2>3. \A m \in Pending(t, l) : n < m
    <3> SUFFICES ASSUME NEW i \in TasksOf(t, l)
                 PROVE  n < t[i][2]
      BY DEF Pending
    <3>1. i + 1 \in TasksOf(q, l) /\ t[i] = q[i + 1] /\ 1 < i + 1
      BY <1>5
    <3>2. 1 \in TasksOf(q, l)
      BY <1>4, <1>11 DEF TasksOf
    <3> QED
      BY <3>1, <3>2, <1>11 DEF Sorted
  <2>4. \A i \in DOMAIN g2 : i \in DOMAIN given \/ i = Len(given) + 1
    BY <2>1
  <2> HIDE DEF n, g2
  <2>5. \A i, j \in DOMAIN g2 : i < j => g2[i] < g2[j]
    <3> SUFFICES ASSUME NEW i \in DOMAIN g2, NEW j \in DOMAIN g2, i < j
                 PROVE  g2[i] < g2[j]
      OBVIOUS
    <3>1. i \in DOMAIN given
      BY <2>1
    <3> QED
      BY <3>1, <2>1, <2>2, <2>4, <1>11 DEF Sorted
  <2>6. \A i \in DOMAIN g2, m \in Pending(t, l) : g2[i] < m
    BY <2>1, <2>3, <2>4, <1>6, <1>11 DEF Sorted
  <2> QED
    BY <2>5, <2>6, <1>10, <1>11 DEF Sorted, n, g2
<1> QED
  BY <1>1, <1>2, <1>4, <1>8, <1>9, <1>10, <1>11 DEF t

\* What was given and what waits make up what is due, the former first: so what was
\* given is a prefix.
LEMMA CompletePrefixed ==
  ASSUME NEW q \in Seq(Listeners \X Positions), NEW em, NEW l \in Listeners,
         NEW given \in Seq(Positions), Sorted(q, l, given), Complete(q, em, l, given)
  PROVE  Prefixed(em, l, given)
<1> SUFFICES ASSUME NEW n \in Pending(q, l), NEW m \in Range(given), n < m
             PROVE  FALSE
  BY DEF Complete, Prefixed
<1>1. PICK i \in DOMAIN given : given[i] = m
  BY DEF Range
<1>2. m < n
  BY <1>1 DEF Sorted
<1>3. m \in Nat
  <2>1. given[i] \in Positions
    BY <1>1
  <2> QED
    BY <2>1, <1>1 DEF Positions
<1>4. PICK k \in DOMAIN q : q[k][2] = n
  BY DEF Pending, TasksOf
<1>5. n \in Nat
  <2>1. q[k] \in Listeners \X Positions
    OBVIOUS
  <2> QED
    BY <2>1, <1>4 DEF Positions
<1> QED
  BY <1>2, <1>3, <1>5

LEMMA RunMicrotaskInv ==
  ASSUME BusInv, RunMicrotask
  PROVE  BusInv'
<1> DEFINE l == microtasks[1][1]
           n == microtasks[1][2]
<1>0. BusTypeOK /\ Tables /\ Times
  BY DEF BusInv
<1>1. microtasks \in Seq(Listeners \X Positions) /\ microtasks # <<>> /\ microtasks' = Tail(microtasks)
  BY <1>0 DEF RunMicrotask, BusTypeOK
<1>2. UNCHANGED <<exact, wildcard, stream, emitted, since, until>>
  BY DEF RunMicrotask
<1>3. /\ l \in Listeners /\ n \in Positions
      /\ microtasks' \in Seq(Listeners \X Positions)
      /\ \A i \in DOMAIN microtasks' : i + 1 \in DOMAIN microtasks /\ microtasks'[i] = microtasks[i + 1]
  <2>1. Listeners # {} /\ <<>> \in Seq(Positions)
    BY <1>1
  <2> QED
    BY <2>1, <1>1, QueueShrinks
<1> HIDE DEF l, n
<1>4. /\ l \in Clients => Enqueue(l, n) /\ UNCHANGED handled
      /\ l \notin Clients => /\ handled' = [handled EXCEPT ![l] = Append(@, n)]
                             /\ UNCHANGED <<written, writerClosed>>
  <2>1. Head(microtasks)[1] = l /\ Head(microtasks)[2] = n
    BY <1>1 DEF l, n
  <2> QED
    BY <2>1 DEF RunMicrotask
<1>5. /\ \A s \in Services : handled[s] \in Seq(Positions) /\ ServiceInv(s) /\ s \in Listeners
      /\ \A c \in Clients : written[c] \in Seq(Positions) /\ ClientInv(c) /\ c \in Listeners
  BY <1>0 DEF BusInv, BusTypeOK, Listeners
<1>6. Tables' /\ Times'
  <2>1. Tables'
    BY <1>0, <1>2 DEF Tables, Hears, Subscribed
  <2>2. Times'
    BY <1>0, <1>2, <1>3 DEF Times, Subscribed
  <2> QED
    BY <2>1, <2>2
<1>7. ASSUME NEW k \in Listeners, k # l, NEW given \in Seq(Positions)
      PROVE  /\ Sorted(microtasks, k, given) => Sorted(microtasks', k, given)
             /\ Complete(microtasks, emitted, k, given) => Complete(microtasks', emitted, k, given)
  BY <1>1, <1>7, QueueShrinks DEF Complete, l
<1>8. ASSUME NEW given \in Seq(Positions), Sorted(microtasks, l, given)
      PROVE  /\ Sorted(microtasks', l, given)
             /\ Sorted(microtasks', l, Append(given, n))
             /\ Append(given, n) \in Seq(Positions)
             /\ Complete(microtasks, emitted, l, given) =>
                  Complete(microtasks', emitted, l, Append(given, n))
  <2>1. /\ Sorted(microtasks', l, given) /\ Sorted(microtasks', l, Append(given, n))
        /\ Pending(microtasks', l) \cup {n} = Pending(microtasks, l)
    BY <1>1, <1>3, <1>8, QueueShrinks DEF l, n
  <2>2. Range(Append(given, n)) = Range(given) \cup {n}
    <3>1. /\ Len(given) \in Nat /\ DOMAIN given = 1 .. Len(given)
          /\ DOMAIN Append(given, n) = 1 .. (Len(given) + 1)
          /\ Append(given, n)[Len(given) + 1] = n
          /\ \A i \in DOMAIN given : Append(given, n)[i] = given[i]
      BY <1>3
    <3>2. \A i \in 1 .. (Len(given) + 1) : i \in 1 .. Len(given) \/ i = Len(given) + 1
      BY <3>1
    <3>3. Len(given) + 1 \in 1 .. (Len(given) + 1) /\ \A i \in 1 .. Len(given) : i \in 1 .. (Len(given) + 1)
      BY <3>1
    <3> QED
      BY <3>1, <3>2, <3>3 DEF Range
  <2> QED
    BY <2>1, <2>2, <1>3 DEF Complete
<1>9. \A em, k : DueIn(em, k)' = DueIn(em', k)
  BY <1>2 DEF DueIn
<1>10. BusTypeOK'
  <2>1. \A s \in Services, m \in Positions : Append(handled[s], m) \in Seq(Positions)
    BY <1>5
  <2>2. handled' \in [Services -> Seq(Positions)]
    <3>1. handled \in [Services -> Seq(Positions)]
      BY <1>0 DEF BusTypeOK
    <3>2. CASE l \in Clients
      BY <3>1, <3>2, <1>4
    <3>3. CASE l \notin Clients
      <4>1. l \in Services /\ handled' = [handled EXCEPT ![l] = Append(@, n)]
        BY <3>3, <1>3, <1>4 DEF Listeners
      <4>2. Append(handled[l], n) \in Seq(Positions)
        BY <4>1, <2>1, <1>3
      <4> QED
        BY <3>1, <4>1, <4>2
    <3> QED
      BY <3>2, <3>3
  <2>3. written' \in [Clients -> Seq(Positions)] /\ writerClosed' \in [Clients -> BOOLEAN]
    <3>1. \A c \in Clients, m \in Positions : Append(written[c], m) \in Seq(Positions)
      BY <1>5
    <3> QED
      BY <1>0, <1>3, <1>4, <3>1 DEF BusTypeOK, Enqueue
  <2> QED
    BY <1>0, <1>2, <1>3, <2>2, <2>3 DEF BusTypeOK
<1>11. ASSUME NEW s \in Services
       PROVE  ServiceInv(s)'
  <2>1. Sorted(microtasks, s, handled[s]) /\ Complete(microtasks, emitted, s, handled[s])
    BY <1>5 DEF ServiceInv
  <2>2. s \notin Clients /\ handled \in [Services -> Seq(Positions)]
    BY <1>0, BusAssumption DEF BusTypeOK
  <2>3. Sorted(microtasks', s, handled'[s]) /\ Complete(microtasks', emitted, s, handled'[s])
    <3>1. CASE s = l
      <4>1. handled'[s] = Append(handled[s], n)
        BY <3>1, <2>2, <1>4
      <4> QED
        BY <3>1, <4>1, <2>1, <1>5, <1>8
    <3>2. CASE s # l
      <4>1. handled'[s] = handled[s]
        BY <3>2, <2>2, <1>4
      <4> QED
        BY <3>2, <4>1, <2>1, <1>5, <1>7
    <3> QED
      BY <3>1, <3>2
  <2> QED
    BY <2>3, <1>2 DEF ServiceInv, Complete, DueIn, Sorted, Pending, TasksOf
<1>12. ASSUME NEW c \in Clients
       PROVE  ClientInv(c)'
  <2>1. ClientInv(c) /\ c \in Listeners /\ written[c] \in Seq(Positions)
        /\ written \in [Clients -> Seq(Positions)] /\ writerClosed \in [Clients -> BOOLEAN]
    BY <1>0, <1>5 DEF BusTypeOK
  <2>2. CASE c # l
    <3>1. written'[c] = written[c] /\ writerClosed'[c] = writerClosed[c]
      BY <2>1, <2>2, <1>4 DEF Enqueue
    <3>2. /\ Sorted(microtasks', c, written[c])
          /\ Complete(microtasks, emitted, c, written[c]) => Complete(microtasks', emitted, c, written[c])
      BY <2>1, <2>2, <1>7 DEF ClientInv
    <3> QED
      BY <3>1, <3>2, <2>1, <1>2 DEF ClientInv, Prefixed, Complete, DueIn, Sorted, Pending, TasksOf
  <2>3. CASE c = l /\ ~writerClosed[c] /\ stream[c] = "open"
    <3>1. written'[c] = Append(written[c], n) /\ writerClosed'[c] = writerClosed[c]
      BY <2>1, <2>3, <1>4 DEF Enqueue
    <3>2. Sorted(microtasks, c, written[c]) /\ Complete(microtasks, emitted, c, written[c])
      BY <2>1, <2>3 DEF ClientInv
    <3>3. /\ Sorted(microtasks', c, Append(written[c], n))
          /\ Complete(microtasks', emitted, c, Append(written[c], n))
          /\ Append(written[c], n) \in Seq(Positions)
      BY <3>2, <2>1, <2>3, <1>8
    <3>4. Prefixed(emitted, c, Append(written[c], n))
      BY <3>3, <2>1, <1>3, CompletePrefixed
    <3> QED
      BY <3>1, <3>3, <3>4, <2>1, <2>3, <1>2
      DEF ClientInv, Prefixed, Complete, DueIn, Sorted, Pending, TasksOf
  <2>4. CASE c = l /\ (writerClosed[c] \/ stream[c] # "open")
    <3>1. stream[c] \notin {"none", "open"}
      <4>1. stream[c] # "none"
        <5>1. ASSUME stream[c] = "none"
              PROVE  FALSE
          <6>1. until[c] = 0 /\ Complete(microtasks, emitted, c, written[c])
            BY <5>1, <2>1 DEF ClientInv
          <6>2. DueIn(emitted, c) = {}
            <7>1. emitted \in Seq(EventTypes)
              BY <1>0 DEF BusTypeOK
            <7> QED
              BY <7>1, <6>1 DEF DueIn
          <6>3. n \in Pending(microtasks, c)
            BY <1>1, <2>4 DEF Pending, TasksOf, l, n
          <6> QED
            BY <6>1, <6>2, <6>3 DEF Complete
        <5> QED
          BY <5>1
      <4> QED
        BY <4>1, <2>1, <2>4 DEF ClientInv
    <3>2. written'[c] = written[c]
      BY <2>1, <2>4, <1>4 DEF Enqueue
    <3>3. Sorted(microtasks', c, written[c])
      BY <2>1, <2>4, <1>8 DEF ClientInv
    <3> QED
      BY <3>1, <3>2, <3>3, <2>1, <1>2 DEF ClientInv, Prefixed, DueIn, Sorted, Pending, TasksOf
  <2> QED
    BY <2>2, <2>3, <2>4
<1> QED
  BY <1>6, <1>10, <1>11, <1>12 DEF BusInv

------------------------------------------------------------------------------
\* Set.delete takes out the one listener and keeps the rest.
LEMMA WithoutOne ==
  ASSUME NEW S, NEW ls \in Seq(S), Injective(ls), NEW l
  PROVE  /\ Without(ls, l) \in Seq(S) /\ Injective(Without(ls, l))
         /\ Range(Without(ls, l)) = Range(ls) \ {l}
<1>0. Len(ls) \in Nat /\ DOMAIN ls = 1 .. Len(ls)
  OBVIOUS
<1>1. CASE ~\E i \in 1 .. Len(ls) : ls[i] = l
  <2>1. Without(ls, l) = ls
    BY <1>1 DEF Without
  <2> QED
    BY <2>1, <1>0, <1>1 DEF Range
<1>2. CASE \E i \in 1 .. Len(ls) : ls[i] = l
  <2> DEFINE k == CHOOSE i \in 1 .. Len(ls) : ls[i] = l
             w == Without(ls, l)
  <2>1. k \in 1 .. Len(ls) /\ ls[k] = l
    BY <1>2
  <2>2. w = RemoveAt(ls, k)
    BY <1>2 DEF Without
  <2> HIDE DEF k, w
  <2>3. w = SubSeq(ls, 1, k - 1) \o SubSeq(ls, k + 1, Len(ls))
    BY <2>2 DEF RemoveAt
  <2>4. k \in Nat /\ k >= 1 /\ k <= Len(ls)
    BY <2>1, <1>0
  <2>5. /\ w \in Seq(S) /\ DOMAIN w = 1 .. (Len(ls) - 1)
        /\ \A i \in DOMAIN w : w[i] = IF i < k THEN ls[i] ELSE ls[i + 1]
    <3>1. /\ SubSeq(ls, 1, k - 1) \in Seq(S) /\ Len(SubSeq(ls, 1, k - 1)) = k - 1
          /\ \A i \in 1 .. (k - 1) : SubSeq(ls, 1, k - 1)[i] = ls[i]
      BY <2>4, <1>0
    <3> DEFINE a == SubSeq(ls, 1, k - 1)
               b == SubSeq(ls, k + 1, Len(ls))
    <3>2. b \in Seq(S) /\ Len(b) = Len(ls) - k
      <4>1. k + 1 \in 1 .. (Len(ls) + 1) /\ Len(ls) \in ((k + 1) - 1) .. Len(ls)
            /\ Len(ls) - (k + 1) + 1 = Len(ls) - k
        BY <2>4, <1>0
      <4> QED
        BY <4>1, SubSeqProperties
    <3>3. ASSUME NEW i \in 1 .. (Len(ls) - k)
          PROVE  b[i] = ls[i + k]
      <4>1. i \in Nat /\ (i + (k + 1)) - 1 = i + k /\ 1 + Len(ls) - (k + 1) = Len(ls) - k
        BY <2>4, <1>0
      <4> QED
        BY <4>1, <2>4, <1>0
    <3> HIDE DEF a, b
    <3>4. a \in Seq(S) /\ Len(a) = k - 1 /\ \A i \in 1 .. (k - 1) : a[i] = ls[i]
      BY <3>1 DEF a
    <3>5. /\ w \in Seq(S) /\ Len(w) = Len(ls) - 1
          /\ \A i \in 1 .. (Len(ls) - 1) : w[i] = IF i <= k - 1 THEN a[i] ELSE b[i - (k - 1)]
      <4>1. w = a \o b
        BY <2>3 DEF a, b
      <4>2. Len(a) + Len(b) = Len(ls) - 1
        BY <3>2, <3>4, <2>4, <1>0
      <4> QED
        BY <4>1, <4>2, <3>2, <3>4
    <3>6. DOMAIN w = 1 .. (Len(ls) - 1)
      BY <3>5, LenProperties
    <3>7. ASSUME NEW i \in 1 .. (Len(ls) - 1)
          PROVE  w[i] = IF i < k THEN ls[i] ELSE ls[i + 1]
      <4>1. i \in Nat /\ i >= 1 /\ i <= Len(ls) - 1
        BY <1>0
      <4>2. CASE i < k
        BY <4>1, <4>2, <3>4, <3>5, <2>4, <1>0
      <4>3. CASE ~(i < k)
        <5>1. i - (k - 1) \in 1 .. (Len(ls) - k) /\ (i - (k - 1)) + k = i + 1 /\ ~(i <= k - 1)
          BY <4>1, <4>3, <2>4, <1>0
        <5> QED
          BY <5>1, <4>3, <3>3, <3>5 DEF b
      <4> QED
        BY <4>2, <4>3
    <3> QED
      BY <3>5, <3>6, <3>7
  <2>6. \A i \in DOMAIN w : /\ i < k => i \in DOMAIN ls /\ w[i] = ls[i]
                            /\ i >= k => i + 1 \in DOMAIN ls /\ w[i] = ls[i + 1]
    BY <2>4, <2>5, <1>0
  <2>7. \A i \in DOMAIN ls : i # k => IF i < k THEN i \in DOMAIN w /\ w[i] = ls[i]
                                      ELSE i - 1 \in DOMAIN w /\ w[i - 1] = ls[i]
    <3> SUFFICES ASSUME NEW i \in DOMAIN ls, i # k
                 PROVE  IF i < k THEN i \in DOMAIN w /\ w[i] = ls[i]
                        ELSE i - 1 \in DOMAIN w /\ w[i - 1] = ls[i]
      OBVIOUS
    <3>1. i \in Nat /\ i >= 1 /\ i <= Len(ls) /\ (i - 1) + 1 = i
      BY <1>0
    <3> QED
      BY <3>1, <2>4, <2>5, <1>0
  <2>8. Injective(w)
    <3> SUFFICES ASSUME NEW i \in DOMAIN w, NEW j \in DOMAIN w, w[i] = w[j]
                 PROVE  i = j
      BY DEF Injective
    <3>1. i \in Nat /\ j \in Nat
      BY <2>5, <1>0
    <3> QED
      BY <3>1, <2>4, <2>6 DEF Injective
  <2>9. ASSUME NEW x \in Range(w)
        PROVE  x \in Range(ls) \ {l}
    <3>1. PICK i \in DOMAIN w : w[i] = x
      BY <2>9 DEF Range
    <3>2. i \in Nat
      BY <2>5, <1>0
    <3>3. PICK j \in DOMAIN ls : ls[j] = x /\ j # k
      BY <3>1, <3>2, <2>4, <2>6
    <3> QED
      BY <3>3, <2>1, <1>0 DEF Range, Injective
  <2>10. ASSUME NEW x \in Range(ls), x # l
         PROVE  x \in Range(w)
    <3>1. PICK i \in DOMAIN ls : ls[i] = x
      BY <2>10 DEF Range
    <3> QED
      BY <3>1, <2>1, <2>7, <2>10 DEF Range
  <2> QED
    BY <2>5, <2>8, <2>9, <2>10 DEF w
<1> QED
  BY <1>1, <1>2

LEMMA ConnectInv ==
  ASSUME BusInv, NEW c \in Clients, Connect(c)
  PROVE  BusInv'
<1>0. BusTypeOK /\ Tables /\ Times /\ c \in Listeners /\ ClientInv(c) /\ stream[c] = "none"
      /\ Forever \in Nat /\ Forever # 0 /\ MaxEmitted \in Nat /\ MaxEmitted < Forever
  BY BusAssumption DEF BusInv, Listeners, Connect, Forever
<1>1. Len(emitted) \in Nat /\ DOMAIN emitted = 1 .. Len(emitted) /\ Len(emitted) <= MaxEmitted
  BY <1>0 DEF BusTypeOK, Times
<1>2. BusTypeOK'
  BY <1>0, <1>1 DEF BusTypeOK, Connect
<1>3. c \notin Services /\ ~Subscribed(c) /\ c \notin Range(wildcard)
  BY <1>0, BusAssumption DEF Tables
<1>4. /\ \A l \in Listeners : l # c => since'[l] = since[l] /\ until'[l] = until[l]
      /\ since'[c] = Len(emitted) /\ until'[c] = Forever
  BY <1>0 DEF Connect, BusTypeOK
<1>5. Tables'
  <2>1. \A l \in Listeners : Subscribed(l)' <=> Subscribed(l) \/ l = c
    BY <1>4 DEF Subscribed, Forever
  <2>2. \A type \in EventTypes :
          Injective(exact[type])' /\ Range(exact[type])' = {s \in Services : Hears(s, type)'}
    BY <2>1, <1>0, <1>3 DEF Tables, Connect, Hears, Listeners
  <2>3. Injective(wildcard)' /\ Range(wildcard)' = Range(wildcard) \cup {c}
    <3>1. wildcard' = Append(wildcard, c) /\ wildcard \in Seq(Clients)
      BY <1>0 DEF Connect, BusTypeOK
    <3>2. /\ Len(wildcard) \in Nat /\ DOMAIN wildcard = 1 .. Len(wildcard)
          /\ DOMAIN wildcard' = 1 .. (Len(wildcard) + 1) /\ wildcard'[Len(wildcard) + 1] = c
          /\ \A i \in 1 .. Len(wildcard) : wildcard'[i] = wildcard[i]
      BY <3>1
    <3>3. /\ \A i \in DOMAIN wildcard' : i \in DOMAIN wildcard \/ i = Len(wildcard) + 1
          /\ \A i \in DOMAIN wildcard : i \in DOMAIN wildcard'
          /\ Len(wildcard) + 1 \in DOMAIN wildcard'
      BY <3>2
    <3>4. \A i \in DOMAIN wildcard : wildcard[i] # c
      BY <1>3 DEF Range
    <3>5. Range(wildcard)' = Range(wildcard) \cup {c}
      BY <3>2, <3>3 DEF Range
    <3> QED
      BY <3>2, <3>3, <3>4, <3>5, <1>0 DEF Tables, Injective
  <2>4. {k \in Clients : Subscribed(k)'} = {k \in Clients : Subscribed(k)} \cup {c}
    BY <2>1 DEF Listeners
  <2>5. \A k \in Clients : Subscribed(k)' <=> stream'[k] \in {"open", "cancelled"}
    BY <2>1, <1>0 DEF Tables, Connect, BusTypeOK, Listeners
  <2> QED
    BY <2>2, <2>3, <2>4, <2>5, <1>0 DEF Tables
<1>6. Times'
  BY <1>0, <1>1, <1>4 DEF Times, Connect, Subscribed, Forever
<1>7. UNCHANGED <<microtasks, emitted, handled, written, writerClosed>>
      /\ \A k \in Clients : k # c => stream'[k] = stream[k]
  BY <1>0 DEF Connect, BusTypeOK
<1>8. ASSUME NEW s \in Services
      PROVE  ServiceInv(s)'
  BY <1>3, <1>4, <1>7 DEF BusInv, ServiceInv, Complete, DueIn, Sorted, Pending, TasksOf, Listeners
<1>9. ASSUME NEW k \in Clients, k # c
      PROVE  ClientInv(k)'
  BY <1>4, <1>7, <1>9 DEF BusInv, ClientInv, Complete, Prefixed, DueIn, Sorted, Pending, TasksOf, Listeners
<1>10. ClientInv(c)'
  <2>1. until[c] = 0 /\ ~writerClosed[c] /\ Sorted(microtasks, c, written[c])
        /\ Complete(microtasks, emitted, c, written[c])
    BY <1>0 DEF ClientInv
  <2>2. DueIn(emitted, c) = {}
    BY <2>1, <1>1 DEF DueIn
  <2>3. DueIn(emitted, c)' = {}
    BY <1>1, <1>4, <1>7 DEF DueIn
  <2>4. stream'[c] = "open"
    BY <1>0 DEF Connect, BusTypeOK
  <2>5. Range(written[c]) = {} /\ Pending(microtasks, c) = {}
    BY <2>1, <2>2 DEF Complete
  <2> QED
    BY <2>1, <2>3, <2>4, <2>5, <1>7 DEF ClientInv, Complete, Prefixed, Sorted, Pending, TasksOf
<1> QED
  BY <1>2, <1>5, <1>6, <1>8, <1>9, <1>10 DEF BusInv

\* A writer that closes, or a stream that does, takes nothing back.
LEMMA StreamBeatInv ==
  ASSUME BusInv, NEW c \in Clients, StreamBeat(c)
  PROVE  BusInv'
<1>0. BusTypeOK /\ Tables /\ Times
  BY DEF BusInv
<1>1. /\ UNCHANGED <<exact, wildcard, microtasks, stream, written, emitted, handled, since, until>>
      /\ writerClosed' = [writerClosed EXCEPT ![c] = TRUE] /\ stream[c] = "cancelled"
  BY DEF StreamBeat, Enqueue
<1>2. BusTypeOK'
  BY <1>0, <1>1 DEF BusTypeOK
<1>3. Tables' /\ Times'
  BY <1>0, <1>1 DEF Tables, Times, Hears, Subscribed
<1>4. \A s \in Services : ServiceInv(s)'
  BY <1>1 DEF BusInv, ServiceInv, Complete, DueIn, Sorted, Pending, TasksOf
<1>5. \A k \in Clients : k # c => writerClosed'[k] = writerClosed[k]
  BY <1>0, <1>1 DEF BusTypeOK
<1>6. \A k \in Clients : ClientInv(k)'
  BY <1>1, <1>5 DEF BusInv, ClientInv, Complete, Prefixed, DueIn, Sorted, Pending, TasksOf
<1> QED
  BY <1>2, <1>3, <1>4, <1>6 DEF BusInv

LEMMA CancelReaderInv ==
  ASSUME BusInv, NEW c \in Clients, CancelReader(c)
  PROVE  BusInv'
<1>0. BusTypeOK /\ Tables /\ Times
  BY DEF BusInv
<1>1. /\ UNCHANGED <<exact, wildcard, microtasks, writerClosed, written, emitted, handled, since, until>>
      /\ stream' = [stream EXCEPT ![c] = "cancelled"] /\ stream[c] = "open"
  BY DEF CancelReader
<1>2. BusTypeOK'
  BY <1>0, <1>1 DEF BusTypeOK
<1>3. \A k \in Clients : stream'[k] = IF k = c THEN "cancelled" ELSE stream[k]
  BY <1>0, <1>1 DEF BusTypeOK
<1>4. Tables' /\ Times'
  BY <1>0, <1>1, <1>3 DEF Tables, Times, Hears, Subscribed
<1>5. \A s \in Services : ServiceInv(s)'
  BY <1>1 DEF BusInv, ServiceInv, Complete, DueIn, Sorted, Pending, TasksOf
<1>6. \A k \in Clients : ClientInv(k)'
  BY <1>1, <1>3 DEF BusInv, ClientInv, Complete, Prefixed, DueIn, Sorted, Pending, TasksOf
<1> QED
  BY <1>2, <1>4, <1>5, <1>6 DEF BusInv

\* The listener is unsubscribed now: nothing more becomes due, and so far nothing was missed.
LEMMA UntilNow ==
  ASSUME BusTypeOK, Times, NEW l \in Listeners, until'[l] = Len(emitted),
         since'[l] = since[l], emitted' = emitted, Subscribed(l) \/ until[l] = Len(emitted)
  PROVE  DueIn(emitted, l)' = DueIn(emitted, l)
<1>1. Len(emitted) \in Nat /\ DOMAIN emitted = 1 .. Len(emitted) /\ Len(emitted) <= MaxEmitted
  BY DEF BusTypeOK, Times
<1>2. \A n \in DOMAIN emitted : n <= Len(emitted) /\ (Subscribed(l) => n <= until[l])
  BY <1>1, BusAssumption DEF Subscribed, Forever
<1> QED
  BY <1>2 DEF DueIn

LEMMA CleanupInv ==
  ASSUME BusInv, NEW c \in Clients, Cleanup(c)
  PROVE  BusInv'
<1>0. BusTypeOK /\ Tables /\ Times /\ c \in Listeners /\ ClientInv(c) /\ Subscribed(c)
      /\ Forever \in Nat /\ MaxEmitted \in Nat /\ MaxEmitted < Forever
  BY BusAssumption DEF BusInv, Listeners, Cleanup, Forever, Tables
<1>1. Len(emitted) \in Nat /\ DOMAIN emitted = 1 .. Len(emitted) /\ Len(emitted) <= MaxEmitted
      /\ Len(emitted) # Forever
  BY <1>0 DEF BusTypeOK, Times
<1>2. /\ Without(wildcard, c) \in Seq(Clients) /\ Injective(Without(wildcard, c))
      /\ Range(Without(wildcard, c)) = Range(wildcard) \ {c}
  BY <1>0, WithoutOne DEF BusTypeOK, Tables
<1>3. /\ UNCHANGED <<exact, microtasks, written, emitted, handled, since>>
      /\ wildcard' = Without(wildcard, c)
      /\ stream' = [stream EXCEPT ![c] = "aborted"]
      /\ until' = [until EXCEPT ![c] = Len(emitted)]
      /\ writerClosed' = [writerClosed EXCEPT ![c] = TRUE]
  BY DEF Cleanup
<1>4. BusTypeOK'
  <2>1. Len(emitted) \in 0 .. Forever
    <3>1. \A i \in Nat : i <= MaxEmitted => i \in 0 .. Forever
      BY <1>0
    <3> QED
      BY <3>1, <1>1
  <2> QED
    BY <2>1, <1>0, <1>2, <1>3 DEF BusTypeOK
<1>5. /\ \A l \in Listeners : until'[l] = IF l = c THEN Len(emitted) ELSE until[l]
      /\ \A k \in Clients : /\ stream'[k] = IF k = c THEN "aborted" ELSE stream[k]
                            /\ writerClosed'[k] = IF k = c THEN TRUE ELSE writerClosed[k]
  BY <1>0, <1>3 DEF BusTypeOK
<1>6. \A l \in Listeners : Subscribed(l)' <=> Subscribed(l) /\ l # c
  BY <1>1, <1>5 DEF Subscribed, Forever
<1>7. Tables'
  <2>1. \A type \in EventTypes :
          Injective(exact[type])' /\ Range(exact[type])' = {s \in Services : Hears(s, type)'}
    BY <1>0, <1>3, <1>6, BusAssumption DEF Tables, Hears, Listeners
  <2>2. Injective(wildcard)' /\ Range(wildcard)' = {k \in Clients : Subscribed(k)'}
    <3>1. Injective(wildcard)' /\ Range(wildcard)' = Range(wildcard) \ {c}
      BY <1>2, <1>3 DEF Injective, Range
    <3>2. Range(wildcard) = {k \in Clients : Subscribed(k)}
      BY <1>0 DEF Tables
    <3> QED
      BY <3>1, <3>2, <1>6 DEF Listeners
  <2>3. \A k \in Clients : Subscribed(k)' <=> stream'[k] \in {"open", "cancelled"}
    BY <1>0, <1>5, <1>6 DEF Tables, Listeners
  <2> QED
    BY <2>1, <2>2, <2>3 DEF Tables
<1>8. Times'
  <2>1. Len(emitted) <= Len(emitted)
    BY <1>1
  <2>2. \A l \in Listeners : since'[l] <= Len(emitted') /\ (Subscribed(l)' \/ until'[l] <= Len(emitted'))
    BY <2>1, <1>0, <1>3, <1>5, <1>6 DEF Times
  <2> QED
    BY <2>2, <1>0, <1>3 DEF Times
<1>9. \A s \in Services : ServiceInv(s)'
  <2>1. \A s \in Services : until'[s] = until[s]
    BY <1>5, BusAssumption DEF Listeners
  <2> QED
    BY <2>1, <1>3, BusAssumption
    DEF BusInv, ServiceInv, Complete, DueIn, Sorted, Pending, TasksOf, Listeners
<1>10. ASSUME NEW k \in Clients
       PROVE  ClientInv(k)'
  <2>1. DueIn(emitted, k)' = DueIn(emitted, k)
    <3>1. CASE k = c
      BY <3>1, <1>0, <1>3, <1>5, UntilNow
    <3>2. CASE k # c
      BY <3>2, <1>3, <1>5 DEF DueIn, Listeners
    <3> QED
      BY <3>1, <3>2
  <2>2. ClientInv(k)
    BY DEF BusInv
  <2>3. stream'[k] \in {"none", "open"} => stream'[k] = stream[k] /\ writerClosed'[k] = writerClosed[k]
                                          /\ until'[k] = until[k]
    BY <1>5 DEF Listeners
  <2>4. Sorted(microtasks, k, written[k])'
    BY <2>2, <1>3 DEF ClientInv, Sorted, Pending, TasksOf
  <2>5. Prefixed(emitted, k, written[k])'
    BY <2>1, <2>2, <1>3 DEF ClientInv, Prefixed
  <2>6. Complete(microtasks, emitted, k, written[k]) => Complete(microtasks, emitted, k, written[k])'
    BY <2>1, <1>3 DEF Complete, Pending, TasksOf
  <2> QED
    BY <2>2, <2>3, <2>4, <2>5, <2>6 DEF ClientInv
<1> QED
  BY <1>4, <1>7, <1>8, <1>9, <1>10 DEF BusInv

LEMMA SubscribeInv ==
  ASSUME BusInv, NEW s \in Services, Subscribe(s)
  PROVE  BusInv'
<1>0. BusTypeOK /\ Tables /\ Times /\ s \in Listeners /\ ServiceInv(s)
      /\ ~Subscribed(s) /\ until[s] = 0 /\ handled[s] = <<>> /\ s \notin Clients
      /\ Forever \in Nat /\ MaxEmitted \in Nat /\ MaxEmitted < Forever
  BY BusAssumption DEF BusInv, Listeners, Subscribe, Forever
<1>1. Len(emitted) \in Nat /\ DOMAIN emitted = 1 .. Len(emitted) /\ Len(emitted) <= MaxEmitted
  BY <1>0 DEF BusTypeOK, Times
<1>2. /\ UNCHANGED <<wildcard, microtasks, stream, writerClosed, written, emitted, handled>>
      /\ exact' = [t \in EventTypes |-> IF t \in TypesOf(s) THEN Append(exact[t], s) ELSE exact[t]]
      /\ since' = [since EXCEPT ![s] = Len(emitted)]
      /\ until' = [until EXCEPT ![s] = Forever]
  BY DEF Subscribe
<1>3. BusTypeOK'
  <2>1. Len(emitted) \in 0 .. MaxEmitted /\ Forever \in 0 .. Forever
    BY <1>0, <1>1
  <2>2. exact' \in [EventTypes -> Seq(Services)]
    <3>1. \A t \in EventTypes : exact[t] \in Seq(Services) /\ Append(exact[t], s) \in Seq(Services)
      BY <1>0 DEF BusTypeOK
    <3> QED
      BY <3>1, <1>2
  <2> QED
    BY <2>1, <2>2, <1>0, <1>2 DEF BusTypeOK
<1>4. \A l \in Listeners : /\ since'[l] = IF l = s THEN Len(emitted) ELSE since[l]
                           /\ until'[l] = IF l = s THEN Forever ELSE until[l]
  BY <1>0, <1>2 DEF BusTypeOK
<1>5. \A l \in Listeners : Subscribed(l)' <=> Subscribed(l) \/ l = s
  BY <1>4 DEF Subscribed, Forever
<1>6. ASSUME NEW t \in EventTypes
      PROVE  /\ Injective(exact[t])'
             /\ Range(exact[t])' = {k \in Services : Hears(k, t)'}
  <2>1. /\ exact[t] \in Seq(Services) /\ Injective(exact[t])
        /\ Range(exact[t]) = {k \in Services : Hears(k, t)}
    BY <1>0 DEF BusTypeOK, Tables
  <2>2. \A k \in Services : Hears(k, t)' <=> Hears(k, t) \/ (k = s /\ t \in TypesOf(s))
    BY <1>5, BusAssumption DEF Hears, Listeners
  <2>3. CASE t \notin TypesOf(s)
    <3>1. exact'[t] = exact[t]
      BY <2>3, <1>2
    <3> QED
      BY <3>1, <2>1, <2>2, <2>3 DEF Injective, Range
  <2>4. CASE t \in TypesOf(s)
    <3>1. exact'[t] = Append(exact[t], s)
      BY <2>4, <1>2
    <3>2. /\ Len(exact[t]) \in Nat /\ DOMAIN exact[t] = 1 .. Len(exact[t])
          /\ DOMAIN exact'[t] = 1 .. (Len(exact[t]) + 1) /\ exact'[t][Len(exact[t]) + 1] = s
          /\ \A i \in 1 .. Len(exact[t]) : exact'[t][i] = exact[t][i]
      BY <2>1, <3>1
    <3>3. /\ \A i \in DOMAIN exact'[t] : i \in DOMAIN exact[t] \/ i = Len(exact[t]) + 1
          /\ \A i \in DOMAIN exact[t] : i \in DOMAIN exact'[t]
          /\ Len(exact[t]) + 1 \in DOMAIN exact'[t]
      BY <3>2
    <3>4. \A i \in DOMAIN exact[t] : exact[t][i] # s
      BY <1>0, <2>1 DEF Range, Hears
    <3>5. Range(exact'[t]) = Range(exact[t]) \cup {s}
      BY <3>2, <3>3 DEF Range
    <3>6. Injective(exact'[t])
      BY <3>2, <3>3, <3>4, <2>1 DEF Injective
    <3> QED
      BY <3>5, <3>6, <2>1, <2>2, <2>4 DEF Injective, Range
  <2> QED
    BY <2>3, <2>4
<1>7. Tables'
  <2>1. \A k \in Clients : Subscribed(k)' <=> Subscribed(k)
    BY <1>0, <1>5 DEF Listeners
  <2> QED
    BY <2>1, <1>0, <1>2, <1>6 DEF Tables, Injective
<1>8. Times'
  BY <1>0, <1>1, <1>2, <1>4, <1>5 DEF Times
<1>9. ASSUME NEW k \in Services
      PROVE  ServiceInv(k)'
  <2>1. ServiceInv(k) /\ k \in Listeners
    BY DEF BusInv, Listeners
  <2>2. DueIn(emitted, k)' = DueIn(emitted, k)
    <3>1. CASE k # s
      BY <3>1, <2>1, <1>2, <1>4 DEF DueIn
    <3>2. CASE k = s
      <4>1. DueIn(emitted, s) = {}
        BY <1>0, <1>1 DEF DueIn
      <4>2. DueIn(emitted, s)' = {}
        BY <1>0, <1>1, <1>2, <1>4 DEF DueIn
      <4> QED
        BY <4>1, <4>2, <3>2
    <3> QED
      BY <3>1, <3>2
  <2> QED
    BY <2>1, <2>2, <1>2 DEF ServiceInv, Complete, Sorted, Pending, TasksOf
<1>10. \A c \in Clients : ClientInv(c)'
  <2>1. \A c \in Clients : since'[c] = since[c] /\ until'[c] = until[c]
    BY <1>0, <1>4 DEF Listeners
  <2> QED
    BY <2>1, <1>2 DEF BusInv, ClientInv, Complete, Prefixed, DueIn, Sorted, Pending, TasksOf
<1> QED
  BY <1>3, <1>7, <1>8, <1>9, <1>10 DEF BusInv

LEMMA UnsubscribeInv ==
  ASSUME BusInv, NEW s \in Services, Unsubscribe(s)
  PROVE  BusInv'
<1>0. BusTypeOK /\ Tables /\ Times /\ s \in Listeners /\ ServiceInv(s) /\ Subscribed(s) /\ s \notin Clients
      /\ Forever \in Nat /\ MaxEmitted \in Nat /\ MaxEmitted < Forever
  BY BusAssumption DEF BusInv, Listeners, Unsubscribe, Forever
<1>1. Len(emitted) \in Nat /\ DOMAIN emitted = 1 .. Len(emitted) /\ Len(emitted) <= MaxEmitted
      /\ Len(emitted) # Forever
  BY <1>0 DEF BusTypeOK, Times
<1>2. /\ UNCHANGED <<wildcard, microtasks, stream, writerClosed, written, emitted, handled, since>>
      /\ exact' = [t \in EventTypes |-> Without(exact[t], s)]
      /\ until' = [until EXCEPT ![s] = Len(emitted)]
  BY DEF Unsubscribe
<1>3. ASSUME NEW t \in EventTypes
      PROVE  /\ exact'[t] \in Seq(Services) /\ Injective(exact'[t])
             /\ Range(exact'[t]) = Range(exact[t]) \ {s}
  <2>1. exact'[t] = Without(exact[t], s) /\ exact[t] \in Seq(Services) /\ Injective(exact[t])
    BY <1>0, <1>2 DEF BusTypeOK, Tables
  <2> QED
    BY <2>1, WithoutOne
<1>4. BusTypeOK'
  <2>1. Len(emitted) \in 0 .. Forever
    <3>1. \A i \in Nat : i <= MaxEmitted => i \in 0 .. Forever
      BY <1>0
    <3> QED
      BY <3>1, <1>1
  <2>2. exact' \in [EventTypes -> Seq(Services)]
    BY <1>2, <1>3
  <2> QED
    BY <2>1, <2>2, <1>0, <1>2 DEF BusTypeOK
<1>5. \A l \in Listeners : until'[l] = IF l = s THEN Len(emitted) ELSE until[l]
  BY <1>0, <1>2 DEF BusTypeOK
<1>6. \A l \in Listeners : Subscribed(l)' <=> Subscribed(l) /\ l # s
  BY <1>1, <1>5 DEF Subscribed, Forever
<1>7. Tables'
  <2>1. ASSUME NEW t \in EventTypes
        PROVE  Injective(exact[t])' /\ Range(exact[t])' = {k \in Services : Hears(k, t)'}
    <3>1. \A k \in Services : Hears(k, t)' <=> Hears(k, t) /\ k # s
      BY <1>6, BusAssumption DEF Hears, Listeners
    <3>2. Range(exact[t]) = {k \in Services : Hears(k, t)}
      BY <1>0 DEF Tables
    <3> QED
      BY <3>1, <3>2, <1>3 DEF Injective, Range
  <2>2. \A c \in Clients : Subscribed(c)' <=> Subscribed(c)
    BY <1>0, <1>6 DEF Listeners
  <2> QED
    BY <2>1, <2>2, <1>0, <1>2 DEF Tables, Injective
<1>8. Times'
  <2>1. Len(emitted) <= Len(emitted)
    BY <1>1
  <2>2. \A l \in Listeners : since'[l] <= Len(emitted') /\ (Subscribed(l)' \/ until'[l] <= Len(emitted'))
    BY <2>1, <1>0, <1>2, <1>5, <1>6 DEF Times
  <2> QED
    BY <2>2, <1>0, <1>2 DEF Times
<1>9. ASSUME NEW k \in Services
      PROVE  ServiceInv(k)'
  <2>1. DueIn(emitted, k)' = DueIn(emitted, k)
    <3>1. CASE k = s
      BY <3>1, <1>0, <1>2, <1>5, UntilNow
    <3>2. CASE k # s
      BY <3>2, <1>2, <1>5 DEF DueIn, Listeners
    <3> QED
      BY <3>1, <3>2
  <2> QED
    BY <2>1, <1>2 DEF BusInv, ServiceInv, Complete, Sorted, Pending, TasksOf
<1>10. \A c \in Clients : ClientInv(c)'
  <2>1. \A c \in Clients : until'[c] = until[c]
    BY <1>0, <1>5 DEF Listeners
  <2> QED
    BY <2>1, <1>2 DEF BusInv, ClientInv, Complete, Prefixed, DueIn, Sorted, Pending, TasksOf
<1> QED
  BY <1>4, <1>7, <1>8, <1>9, <1>10 DEF BusInv

------------------------------------------------------------------------------
LEMMA BusStepInv ==
  ASSUME BusInv, [BusNext]_busVars
  PROVE  BusInv'
<1>1. ASSUME NEW t \in CaptureTypes, EmitStored(t) PROVE BusInv'
  BY <1>1, EmitStoredInv
<1>2. CASE EmitFact
  BY <1>2, EmitFactInv
<1>3. CASE RunMicrotask
  BY <1>3, RunMicrotaskInv
<1>4. ASSUME NEW c \in Clients, Connect(c) \/ StreamBeat(c) \/ CancelReader(c) \/ Cleanup(c)
      PROVE  BusInv'
  BY <1>4, ConnectInv, StreamBeatInv, CancelReaderInv, CleanupInv
<1>5. ASSUME NEW s \in Services, Subscribe(s) \/ Unsubscribe(s)
      PROVE  BusInv'
  BY <1>5, SubscribeInv, UnsubscribeInv
<1>6. CASE UNCHANGED busVars
  <2>1. UNCHANGED <<exact, wildcard, microtasks, stream, writerClosed, written, emitted, handled,
                    since, until>>
    BY <1>6 DEF busVars
  <2>2. BusTypeOK' /\ Tables' /\ Times'
    BY <2>1 DEF BusInv, BusTypeOK, Tables, Times, Hears, Subscribed
  <2>3. \A s \in Services : ServiceInv(s)'
    BY <2>1 DEF BusInv, ServiceInv, Complete, DueIn, Sorted, Pending, TasksOf
  <2>4. \A c \in Clients : ClientInv(c)'
    BY <2>1 DEF BusInv, ClientInv, Complete, Prefixed, DueIn, Sorted, Pending, TasksOf
  <2> QED
    BY <2>2, <2>3, <2>4 DEF BusInv
<1> QED
  BY <1>1, <1>2, <1>3, <1>4, <1>5, <1>6 DEF BusNext

\* The invariant says what EventBus promises.
LEMMA BusInvPromises == BusInv => EachListenerInOrder
<1> SUFFICES ASSUME BusInv PROVE EachListenerInOrder
  OBVIOUS
<1>1. ASSUME NEW l \in Listeners
      PROVE  DueIn(emitted, l) = Due(l) /\ Pending(microtasks, l) = Queued(l)
             /\ TasksOf(microtasks, l) = QueuedAt(l)
  BY DEF DueIn, Due, Pending, Queued, TasksOf, QueuedAt
<1>2. \A l \in Listeners : \A given : Sorted(microtasks, l, given) => InOrder(l, given)
  BY <1>1 DEF Sorted, InOrder
<1>3. ASSUME NEW s \in Services
      PROVE  InOrder(s, handled[s]) /\ Range(handled[s]) \cup Queued(s) = Due(s)
  <2>1. s \in Listeners /\ ServiceInv(s)
    BY DEF BusInv, Listeners
  <2> QED
    BY <2>1, <1>1, <1>2 DEF ServiceInv, Complete
<1>4. ASSUME NEW c \in Clients
      PROVE  /\ InOrder(c, written[c])
             /\ stream[c] = "open" => Range(written[c]) \cup Queued(c) = Due(c)
             /\ Range(written[c]) \subseteq Due(c)
             /\ \A n \in Due(c), m \in Range(written[c]) : n < m => n \in Range(written[c])
  <2>1. c \in Listeners /\ ClientInv(c)
    BY DEF BusInv, Listeners
  <2> QED
    BY <2>1, <1>1, <1>2 DEF ClientInv, Complete, Prefixed
<1> QED
  BY <1>3, <1>4 DEF EachListenerInOrder

\* The table of listeners and the queue stay what they are declared to be, for any
\* number of clients, services and events.
THEOREM BusTyped == BusSpec => []BusTypeOK
<1>1. BusInit => BusInv
  BY BusInitInv
<1>2. BusInv /\ [BusNext]_busVars => BusInv'
  BY BusStepInv
<1>3. BusInv => BusTypeOK
  BY DEF BusInv
<1> QED
  BY <1>1, <1>2, <1>3, PTL DEF BusSpec

\* bus.ts hands every listener what is due to it, once and in the order of emission,
\* and a stream writes a prefix of it.
THEOREM EachListenerIsGiven == BusSpec => []EachListenerInOrder
<1>1. BusInit => BusInv
  BY BusInitInv
<1>2. BusInv /\ [BusNext]_busVars => BusInv'
  BY BusStepInv
<1>3. BusInv => EachListenerInOrder
  BY BusInvPromises
<1> QED
  BY <1>1, <1>2, <1>3, PTL DEF BusSpec

------------------------------------------------------------------------------
(* The wire.  What is in the buffer and under way is a sequence of frames:  *)
(* frame i is heartbeat (0) or payload f[i] of the script, followed by two  *)
(* newlines, whatever chunks it arrives in.                                 *)
Tokens == Range(script) \cup {NL, Colon}
Line(k) == IF k = 0 THEN Colon ELSE script[k]

Framed(s, f) ==
  /\ Len(s) = 3 * Len(f)
  /\ \A i \in DOMAIN f : s[3 * i - 2] = Line(f[i]) /\ s[3 * i - 1] = NL /\ s[3 * i] = NL

\* The payloads among the frames are those from p + 1 to n, in order.
Ascending(f, p, n) ==
  /\ \A i, j \in DOMAIN f : i < j /\ f[i] # 0 /\ f[j] # 0 => f[i] < f[j]
  /\ \A k \in 1 .. n : k > p <=> \E i \in DOMAIN f : f[i] = k

Wired(s, p, n) == \E f \in Seq(0 .. n) : Framed(s, f) /\ Ascending(f, p, n)

Payloads == {Finish, DONE, Error} \cup {Payload("text-delta", i) : i \in Nat}

\* A script is never empty, [DONE] comes last if at all, and what ends it tells the
\* client that it is complete; only /agent may end with an error.
ScriptOK ==
  /\ script \in Seq(Payloads) /\ Len(script) >= 1
  /\ \A i \in DOMAIN script : script[i] # NL /\ script[i] # Colon /\ (script[i] = DONE => i = Len(script))
  /\ \/ script[Len(script)] \in {Finish, DONE}
     \/ script[Len(script)] = Error /\ who = "recall"

\* The first p payloads were parsed.
Parsed(p) ==
  /\ p \in 0 .. next
  /\ Len(delivered) = IF p <= Len(Meaningful) THEN p ELSE Len(Meaningful)
  /\ \A k \in 1 .. p : script[k] \in {Finish, DONE} => sawFinish

WireShape ==
  /\ who \in Callers /\ next \in 0 .. Len(script) /\ beats \in 0 .. MaxBeats
  /\ writer \in {"none", "open", "closed"}
  /\ conn \in {"request", "refused", "refused, cut", "stream", "cut", "destroyed", "down"}
  /\ parsing \in BOOLEAN /\ sawFinish \in BOOLEAN
  /\ outcome \in {"pending", "resolved", "rejected"}
  /\ wire \in Seq(Tokens) /\ buffer \in Seq(Tokens)
  /\ delivered \in Seq(Range(script))

DeliveredSoFar ==
  /\ Len(delivered) <= Len(Meaningful)
  /\ \A i \in DOMAIN delivered : delivered[i] = script[i]

Requested == /\ writer = "none" /\ next = 0 /\ wire = <<>> /\ buffer = <<>>
             /\ delivered = <<>> /\ outcome = "pending" /\ ~sawFinish

Streaming ==
  /\ writer # "none" /\ (writer = "closed" => next = Len(script))
  /\ \E p \in 0 .. next : Parsed(p) /\ Wired(buffer \o wire, p, next)

WireInv ==
  /\ ScriptOK /\ WireShape /\ DeliveredSoFar
  /\ parsing => conn = "stream"
  /\ ~parsing /\ outcome = "pending" => Boundaries = {}
  /\ conn = "request" => Requested
  /\ conn = "stream" => Streaming
  /\ outcome = "resolved" => conn = "down" /\ delivered = Meaningful

LEMMA TokensApart ==
  /\ NL # Colon /\ Finish # DONE /\ Error # DONE /\ Error # NL /\ Error # Colon
  /\ \A type, i : Payload(type, i) # NL /\ Payload(type, i) # Colon
  /\ \A i : Payload("text-delta", i) # DONE
<1>1. Len(NL) = 1 /\ Len(Colon) = 1 /\ NL[1] = "nl" /\ Colon[1] = ":"
  BY DEF NL, Colon
<1>2. \A type, i : Len(Payload(type, i)) = 3 /\ Payload(type, i)[2] = type
  BY DEF Payload
<1> QED
  BY <1>1, <1>2 DEF Finish, DONE, Error

LEMMA ScriptFits == WireInit => ScriptOK
<1> SUFFICES ASSUME WireInit PROVE ScriptOK
  OBVIOUS
<1>1. PICK n \in 0 .. MaxDeltas, e \in Endings(who) : script = Deltas(n) \o e
  BY DEF WireInit
<1>2. n \in Nat
  BY <1>1, WireAssumption
<1>3. /\ Deltas(n) \in Seq(Payloads) /\ Len(Deltas(n)) = n
      /\ \A i \in 1 .. n : Deltas(n)[i] = Payload("text-delta", i)
  <2>1. \A i \in 1 .. n : Payload("text-delta", i) \in Payloads
    BY <1>2 DEF Payloads
  <2> QED
    BY <1>2, <2>1 DEF Deltas
<1>4. Finish \in Payloads /\ DONE \in Payloads /\ Error \in Payloads
  BY DEF Payloads
<1>5. /\ e \in Seq(Payloads) /\ Len(e) \in 1 .. 3
      /\ \A i \in 1 .. Len(e) : e[i] \in {Finish, Error, DONE} /\ (e[i] = DONE => i = Len(e))
      /\ e[Len(e)] \in {Finish, DONE} \/ (e[Len(e)] = Error /\ who = "recall")
  <2>1. e \in {<<Finish>>, <<Error>>, <<Finish, DONE>>, <<Error, DONE>>, <<Error, Finish, DONE>>}
        /\ (e = <<Error>> => who = "recall")
    BY <1>1 DEF Endings
  <2>2. CASE e \in {<<Finish>>, <<Error>>}
    <3>1. e \in Seq(Payloads) /\ Len(e) = 1 /\ e[1] \in {Finish, Error} /\ e[1] # DONE
      BY <2>2, <1>4, TokensApart
    <3>2. e[1] = Error => e = <<Error>>
      BY <3>1
    <3>3. 1 .. Len(e) = {1}
      BY <3>1
    <3> QED
      BY <3>1, <3>2, <3>3, <2>1
  <2>3. ASSUME NEW a \in {Finish, Error}, e = <<a, DONE>>
        PROVE  /\ e \in Seq(Payloads) /\ Len(e) = 2 /\ e[1] \in {Finish, Error} /\ e[1] # DONE
               /\ e[2] = DONE
    BY <2>3, <1>4, TokensApart
  <2>4. ASSUME e = <<Error, Finish, DONE>>
        PROVE  /\ e \in Seq(Payloads) /\ Len(e) = 3 /\ e[1] = Error /\ e[2] = Finish /\ e[3] = DONE
               /\ e[1] # DONE /\ e[2] # DONE
    BY <2>4, <1>4, TokensApart
  <2>5. CASE e \in {<<Finish, DONE>>, <<Error, DONE>>}
    <3>1. /\ e \in Seq(Payloads) /\ Len(e) = 2 /\ e[1] \in {Finish, Error} /\ e[1] # DONE
          /\ e[2] = DONE
      BY <2>3, <2>5
    <3>2. 1 .. Len(e) = {1, 2}
      BY <3>1
    <3> QED
      BY <3>1, <3>2
  <2>6. CASE e = <<Error, Finish, DONE>>
    <3>2. 1 .. Len(e) = {1, 2, 3}
      BY <2>4, <2>6
    <3> QED
      BY <2>4, <2>6, <3>2
  <2> QED
    BY <2>1, <2>2, <2>5, <2>6
<1>6. /\ script \in Seq(Payloads) /\ Len(script) = n + Len(e) /\ DOMAIN script = 1 .. (n + Len(e))
      /\ \A i \in 1 .. (n + Len(e)) : script[i] = IF i <= n THEN Deltas(n)[i] ELSE e[i - n]
  BY <1>1, <1>2, <1>3, <1>5
<1>7. Len(script) >= 1 /\ script[Len(script)] = e[Len(e)]
  BY <1>2, <1>5, <1>6
<1>8. ASSUME NEW i \in DOMAIN script
      PROVE  script[i] # NL /\ script[i] # Colon /\ (script[i] = DONE => i = Len(script))
  <2>1. CASE i <= n
    <3>1. script[i] = Payload("text-delta", i)
      BY <2>1, <1>2, <1>3, <1>6
    <3> QED
      BY <3>1, TokensApart
  <2>2. CASE ~(i <= n)
    <3>1. i - n \in 1 .. Len(e) /\ script[i] = e[i - n] /\ (i - n = Len(e) => i = Len(script))
      BY <2>2, <1>2, <1>5, <1>6
    <3> QED
      BY <3>1, <1>5, TokensApart DEF Finish, Error, DONE
  <2> QED
    BY <2>1, <2>2
<1> QED
  <2>1. script[Len(script)] \in {Finish, DONE} \/ (script[Len(script)] = Error /\ who = "recall")
    BY <1>5, <1>7
  <2> QED
    BY <2>1, <1>6, <1>7, <1>8 DEF ScriptOK

LEMMA WireInitInv == WireInit => WireInv
<1> SUFFICES ASSUME WireInit PROVE WireInv
  OBVIOUS
<1>1. ScriptOK
  BY ScriptFits
<1>2. MaxBeats \in Nat /\ Len(script) \in Nat
  BY <1>1, WireAssumption DEF ScriptOK
<1>3. WireShape /\ Requested
  <2>1. 0 \in 0 .. Len(script) /\ 0 \in 0 .. MaxBeats
    BY <1>2
  <2>2. wire \in Seq(Tokens) /\ buffer \in Seq(Tokens) /\ delivered \in Seq(Range(script))
    BY DEF WireInit
  <2>3. Requested
    BY DEF WireInit, Requested
  <2>4. parsing \in BOOLEAN /\ sawFinish \in BOOLEAN
    BY Zenon DEF WireInit
  <2> QED
    BY <2>1, <2>2, <2>3, <2>4 DEF WireInit, WireShape
<1>4. Boundaries = {}
  BY DEF WireInit, Boundaries
<1>5. DeliveredSoFar
  <2>1. Len(Meaningful) \in Nat
    BY <1>1 DEF ScriptOK, Meaningful, Front, Last
  <2> QED
    BY <2>1 DEF WireInit, DeliveredSoFar
<1> QED
  BY <1>1, <1>3, <1>4, <1>5 DEF WireInv, WireInit

\* What is left of the script without its [DONE].
LEMMA MeaningfulFits ==
  ASSUME ScriptOK
  PROVE  /\ Meaningful \in Seq(Range(script)) /\ Len(Meaningful) \in Nat /\ Len(script) \in Nat
         /\ Len(Meaningful) <= Len(script) /\ Len(script) <= Len(Meaningful) + 1
         /\ \A i \in 1 .. Len(Meaningful) : Meaningful[i] = script[i]
         /\ \A k \in 1 .. Len(script) : script[k] = DONE <=> k > Len(Meaningful)
<1>1. /\ script \in Seq(Payloads) /\ Len(script) \in Nat /\ Len(script) >= 1
      /\ DOMAIN script = 1 .. Len(script)
  BY DEF ScriptOK
<1>2. script \in Seq(Range(script))
  BY <1>1 DEF Range
<1>3. CASE script[Len(script)] = DONE
  <2>1. Meaningful = SubSeq(script, 1, Len(script) - 1)
    BY <1>3 DEF Meaningful, Last, Front
  <2>2. /\ Meaningful \in Seq(Range(script)) /\ Len(Meaningful) = Len(script) - 1
        /\ \A i \in 1 .. (Len(script) - 1) : Meaningful[i] = script[i]
    BY <2>1, <1>1, <1>2
  <2>3. \A k \in 1 .. Len(script) : script[k] = DONE <=> k > Len(script) - 1
    <3>1. ASSUME NEW k \in 1 .. Len(script), k > Len(script) - 1
          PROVE  k = Len(script)
      <4>1. k \in Nat /\ k <= Len(script)
        BY <1>1
      <4>2. \A a, b \in Nat : a <= b /\ a > b - 1 => a = b
        OBVIOUS
      <4> QED
        BY <4>1, <4>2, <3>1, <1>1
    <3>2. Len(script) > Len(script) - 1
      BY <1>1
    <3> QED
      BY <1>1, <1>3, <3>1, <3>2 DEF ScriptOK
  <2> QED
    BY <2>2, <2>3, <1>1
<1>4. CASE script[Len(script)] # DONE
  <2>1. Meaningful = script
    BY <1>4 DEF Meaningful, Last
  <2>2. \A k \in 1 .. Len(script) : script[k] # DONE
    BY <1>1, <1>4 DEF ScriptOK
  <2> QED
    BY <2>1, <2>2, <1>1, <1>2
<1> QED
  BY <1>3, <1>4

------------------------------------------------------------------------------
\* One more frame at the end of the stream.
LEMMA FrameWritten ==
  ASSUME NEW T, NEW s \in Seq(T), NEW n \in Nat, NEW f \in Seq(0 .. n), Framed(s, f), NEW k \in Nat,
         Line(k) \in T, NL \in T
  PROVE  Framed(s \o <<Line(k), NL, NL>>, Append(f, k))
<1> DEFINE s2 == s \o <<Line(k), NL, NL>>
           f2 == Append(f, k)
<1>1. Len(f) \in Nat /\ DOMAIN f = 1 .. Len(f) /\ Len(s) = 3 * Len(f) /\ Len(s) \in Nat
  BY DEF Framed
<1>2. /\ f2 \in Seq(Nat) /\ Len(f2) = Len(f) + 1 /\ DOMAIN f2 = 1 .. (Len(f) + 1)
      /\ f2[Len(f) + 1] = k /\ \A i \in 1 .. Len(f) : f2[i] = f[i]
  OBVIOUS
<1>3. /\ Len(s2) = Len(s) + 3
      /\ \A i \in 1 .. Len(s) : s2[i] = s[i]
      /\ s2[Len(s) + 1] = Line(k) /\ s2[Len(s) + 2] = NL /\ s2[Len(s) + 3] = NL
  <2> DEFINE t == <<Line(k), NL, NL>>
  <2>1. t \in Seq(T) /\ Len(t) = 3 /\ t[1] = Line(k) /\ t[2] = NL /\ t[3] = NL
    OBVIOUS
  <2> HIDE DEF t
  <2>2. /\ Len(s \o t) = Len(s) + 3
        /\ \A i \in 1 .. (Len(s) + 3) : (s \o t)[i] = IF i <= Len(s) THEN s[i] ELSE t[i - Len(s)]
    <3>1. /\ Len(s \o t) = Len(s) + Len(t)
          /\ \A i \in 1 .. (Len(s) + Len(t)) :
               (s \o t)[i] = IF i <= Len(s) THEN s[i] ELSE t[i - Len(s)]
      BY <2>1, ConcatProperties
    <3> QED
      BY <3>1, <2>1
  <2>3. /\ Len(s) + 1 \in 1 .. (Len(s) + 3) /\ Len(s) + 2 \in 1 .. (Len(s) + 3)
        /\ Len(s) + 3 \in 1 .. (Len(s) + 3)
        /\ (Len(s) + 1) - Len(s) = 1 /\ (Len(s) + 2) - Len(s) = 2 /\ (Len(s) + 3) - Len(s) = 3
        /\ ~(Len(s) + 1 <= Len(s)) /\ ~(Len(s) + 2 <= Len(s)) /\ ~(Len(s) + 3 <= Len(s))
    BY <1>1
  <2>4. \A i \in 1 .. Len(s) : i \in 1 .. (Len(s) + 3) /\ i <= Len(s)
    BY <1>1
  <2> QED
    BY <2>1, <2>2, <2>3, <2>4 DEF t
<1> HIDE DEF s2, f2
<1>4. Len(s2) = 3 * Len(f2)
  BY <1>1, <1>2, <1>3
<1>5. ASSUME NEW i \in DOMAIN f2
      PROVE  s2[3 * i - 2] = Line(f2[i]) /\ s2[3 * i - 1] = NL /\ s2[3 * i] = NL
  <2>1. CASE i \in DOMAIN f
    <3>1. i \in Nat /\ i >= 1 /\ i <= Len(f) /\ f2[i] = f[i]
      BY <2>1, <1>1, <1>2
    <3>2. 3 * i - 2 \in 1 .. Len(s) /\ 3 * i - 1 \in 1 .. Len(s) /\ 3 * i \in 1 .. Len(s)
      BY <3>1, <1>1
    <3> QED
      BY <2>1, <3>1, <3>2, <1>3 DEF Framed
  <2>2. CASE i \notin DOMAIN f
    <3>1. i = Len(f) + 1
      BY <2>2, <1>1, <1>2
    <3>2. 3 * i - 2 = Len(s) + 1 /\ 3 * i - 1 = Len(s) + 2 /\ 3 * i = Len(s) + 3 /\ f2[i] = k
      BY <3>1, <1>1, <1>2
    <3> QED
      BY <3>2, <1>3
  <2> QED
    BY <2>1, <2>2
<1> QED
  BY <1>4, <1>5 DEF Framed, s2, f2

\* The first frame is taken off.
LEMMA FrameTaken ==
  ASSUME NEW T, NEW s \in Seq(T), NEW n \in Nat, NEW f \in Seq(0 .. n), Framed(s, f), Len(s) >= 1
  PROVE  /\ Len(f) >= 1 /\ f[1] \in 0 .. n /\ Tail(f) \in Seq(0 .. n) /\ Len(s) >= 3
         /\ s[1] = Line(f[1]) /\ s[2] = NL /\ s[3] = NL
         /\ Framed(SubSeq(s, 4, Len(s)), Tail(f))
<1>1. Len(f) \in Nat /\ DOMAIN f = 1 .. Len(f) /\ Len(s) = 3 * Len(f) /\ Len(s) \in Nat
  BY DEF Framed
<1>2. Len(f) >= 1 /\ 1 \in DOMAIN f /\ Len(s) >= 3 /\ f # <<>>
  BY <1>1
<1>3. s[1] = Line(f[1]) /\ s[2] = NL /\ s[3] = NL
  <2>1. 3 * 1 - 2 = 1 /\ 3 * 1 - 1 = 2 /\ 3 * 1 = 3
    OBVIOUS
  <2> QED
    BY <2>1, <1>2 DEF Framed
<1>4. /\ Tail(f) \in Seq(0 .. n) /\ Len(Tail(f)) = Len(f) - 1 /\ DOMAIN Tail(f) = 1 .. (Len(f) - 1)
      /\ \A i \in 1 .. (Len(f) - 1) : Tail(f)[i] = f[i + 1]
  BY <1>1, <1>2
<1> DEFINE t == SubSeq(s, 4, Len(s))
<1>5. /\ Len(t) = Len(s) - 3
      /\ \A i \in 1 .. (Len(s) - 3) : t[i] = s[i + 3]
  <2>1. t = [i \in 1 .. (Len(s) - 3) |-> s[i + 3]]
    <3>1. 1 + Len(s) - 4 = Len(s) - 3 /\ \A i \in 1 .. (Len(s) - 3) : i + 4 - 1 = i + 3
      BY <1>1, <1>2
    <3> QED
      BY <3>1, <1>1, <1>2
  <2>2. Len(s) - 3 \in Nat
    BY <1>1, <1>2
  <2> HIDE DEF t
  <2> QED
    BY <2>1, <2>2
<1> HIDE DEF t
<1>6. Len(t) = 3 * Len(Tail(f))
  BY <1>1, <1>4, <1>5
<1>7. ASSUME NEW i \in DOMAIN Tail(f)
      PROVE  t[3 * i - 2] = Line(Tail(f)[i]) /\ t[3 * i - 1] = NL /\ t[3 * i] = NL
  <2>1. i \in Nat /\ i >= 1 /\ i + 1 <= Len(f) /\ i + 1 \in DOMAIN f /\ Tail(f)[i] = f[i + 1]
    BY <1>1, <1>4
  <2>2. /\ 3 * i - 2 \in 1 .. (Len(s) - 3) /\ 3 * i - 1 \in 1 .. (Len(s) - 3) /\ 3 * i \in 1 .. (Len(s) - 3)
        /\ (3 * i - 2) + 3 = 3 * (i + 1) - 2 /\ (3 * i - 1) + 3 = 3 * (i + 1) - 1
        /\ 3 * i + 3 = 3 * (i + 1)
    BY <2>1, <1>1
  <2>3. s[3 * (i + 1) - 2] = Line(f[i + 1]) /\ s[3 * (i + 1) - 1] = NL /\ s[3 * (i + 1)] = NL
    BY <2>1 DEF Framed
  <2> QED
    BY <2>1, <2>2, <2>3, <1>5
<1>8. f[1] \in 0 .. n
  BY <1>2
<1> QED
  BY <1>2, <1>3, <1>4, <1>6, <1>7, <1>8 DEF Framed, t

LEMMA WiredBeat ==
  ASSUME NEW s \in Seq(Tokens), NEW n \in Nat, NEW p \in Nat, Wired(s, p, n)
  PROVE  Wired(s \o <<Colon, NL, NL>>, p, n)
<1>1. PICK f \in Seq(0 .. n) : Framed(s, f) /\ Ascending(f, p, n)
  BY DEF Wired
<1> DEFINE f2 == Append(f, 0)
<1>2. Len(f) \in Nat /\ DOMAIN f = 1 .. Len(f) /\ 0 \in 0 .. n
  OBVIOUS
<1>3. /\ f2 \in Seq(0 .. n) /\ DOMAIN f2 = 1 .. (Len(f) + 1)
      /\ f2[Len(f) + 1] = 0 /\ \A i \in 1 .. Len(f) : f2[i] = f[i]
  BY <1>2
<1>4. Framed(s \o <<Colon, NL, NL>>, f2)
  <2>1. Line(0) = Colon /\ Line(0) \in Tokens /\ NL \in Tokens
    BY DEF Line, Tokens
  <2> QED
    BY <2>1, <1>1, FrameWritten
<1> HIDE DEF f2
<1>5. \A i \in DOMAIN f2 : f2[i] # 0 => i \in DOMAIN f /\ f2[i] = f[i]
  BY <1>2, <1>3
<1>6. \A i \in DOMAIN f : i \in DOMAIN f2 /\ f2[i] = f[i]
  BY <1>2, <1>3
<1>7. Ascending(f2, p, n)
  <2>1. \A k \in 1 .. n : (\E i \in DOMAIN f2 : f2[i] = k) <=> (\E i \in DOMAIN f : f[i] = k)
    BY <1>5, <1>6
  <2> QED
    BY <2>1, <1>1, <1>5 DEF Ascending
<1> QED
  BY <1>3, <1>4, <1>7 DEF Wired

LEMMA WiredPayload ==
  ASSUME NEW s \in Seq(Tokens), NEW n \in Nat, NEW p \in 0 .. n, Wired(s, p, n), n + 1 \in DOMAIN script
  PROVE  Wired(s \o <<script[n + 1], NL, NL>>, p, n + 1)
<1>1. PICK f \in Seq(0 .. n) : Framed(s, f) /\ Ascending(f, p, n)
  BY DEF Wired
<1> DEFINE m == n + 1
           f2 == Append(f, m)
<1>2. Len(f) \in Nat /\ DOMAIN f = 1 .. Len(f) /\ m \in Nat /\ m # 0 /\ m \in 0 .. m
      /\ 0 .. n \subseteq 0 .. m /\ p \in Nat /\ m > p
  OBVIOUS
<1>3. /\ f2 \in Seq(0 .. m) /\ DOMAIN f2 = 1 .. (Len(f) + 1)
      /\ f2[Len(f) + 1] = m /\ \A i \in 1 .. Len(f) : f2[i] = f[i]
  <2>1. f \in Seq(0 .. m)
    BY <1>2
  <2> QED
    BY <2>1, <1>2
<1>4. Framed(s \o <<script[m], NL, NL>>, f2)
  <2>1. Line(m) = script[m] /\ Line(m) \in Tokens /\ NL \in Tokens
    BY <1>2 DEF Line, Tokens, Range
  <2> QED
    BY <2>1, <1>1, <1>2, FrameWritten
<1>5. \A i \in DOMAIN f : i \in DOMAIN f2 /\ f2[i] = f[i] /\ f[i] \in 0 .. n /\ f[i] < m
  BY <1>2, <1>3
<1>6. \A i \in DOMAIN f2 : i \in DOMAIN f \/ (i = Len(f) + 1 /\ f2[i] = m)
  BY <1>2, <1>3
<1>7. Len(f) + 1 \in DOMAIN f2 /\ \A i \in DOMAIN f : ~(Len(f) + 1 < i)
  BY <1>2, <1>3
<1>8. \A k \in 1 .. m : k = m \/ k \in 1 .. n
  BY <1>2
<1> HIDE DEF f2, m
<1>9. \A i, j \in DOMAIN f2 : i < j /\ f2[i] # 0 /\ f2[j] # 0 => f2[i] < f2[j]
  <2> SUFFICES ASSUME NEW i \in DOMAIN f2, NEW j \in DOMAIN f2, i < j, f2[i] # 0, f2[j] # 0
               PROVE  f2[i] < f2[j]
    OBVIOUS
  <2>1. i \in DOMAIN f
    <3>1. i \in Nat /\ j \in Nat /\ j <= Len(f) + 1
      BY <1>2, <1>3
    <3> QED
      BY <3>1, <1>2, <1>6
  <2>2. CASE j \in DOMAIN f
    BY <2>1, <2>2, <1>1, <1>5 DEF Ascending
  <2>3. CASE j \notin DOMAIN f
    BY <2>1, <2>3, <1>5, <1>6
  <2> QED
    BY <2>2, <2>3
<1>10. \A k \in 1 .. m : k > p <=> \E i \in DOMAIN f2 : f2[i] = k
  <2> SUFFICES ASSUME NEW k \in 1 .. m
               PROVE  k > p <=> \E i \in DOMAIN f2 : f2[i] = k
    OBVIOUS
  <2>1. CASE k = m
    BY <2>1, <1>2, <1>3, <1>7
  <2>2. CASE k \in 1 .. n /\ k # m
    <3>1. (\E i \in DOMAIN f2 : f2[i] = k) <=> (\E i \in DOMAIN f : f[i] = k)
      BY <2>2, <1>5, <1>6
    <3> QED
      BY <2>2, <3>1, <1>1 DEF Ascending
  <2> QED
    BY <2>1, <2>2, <1>8
<1> QED
  BY <1>3, <1>4, <1>9, <1>10 DEF Wired, Ascending, m

\* The next frame is a heartbeat or the next payload.
LEMMA WiredTaken ==
  ASSUME NEW s \in Seq(Tokens), NEW n \in Nat, NEW p \in 0 .. n, Wired(s, p, n), Len(s) >= 1
  PROVE  /\ Len(s) >= 3 /\ s[2] = NL /\ s[3] = NL
         /\ \/ s[1] = Colon /\ Wired(SubSeq(s, 4, Len(s)), p, n)
            \/ /\ p + 1 \in 1 .. n /\ s[1] = script[p + 1]
               /\ Wired(SubSeq(s, 4, Len(s)), p + 1, n)
<1>1. PICK f \in Seq(0 .. n) : Framed(s, f) /\ Ascending(f, p, n)
  BY DEF Wired
<1> DEFINE t == Tail(f)
<1>2. /\ Len(f) >= 1 /\ f[1] \in 0 .. n /\ t \in Seq(0 .. n) /\ Len(s) >= 3
      /\ s[1] = Line(f[1]) /\ s[2] = NL /\ s[3] = NL
      /\ Framed(SubSeq(s, 4, Len(s)), t)
  BY <1>1, FrameTaken
<1>3. /\ Len(f) \in Nat /\ DOMAIN f = 1 .. Len(f) /\ DOMAIN t = 1 .. (Len(f) - 1)
      /\ \A i \in 1 .. (Len(f) - 1) : t[i] = f[i + 1]
  BY <1>2
<1> HIDE DEF t
<1>4. \A i \in DOMAIN t : i + 1 \in DOMAIN f /\ t[i] = f[i + 1] /\ i \in Nat /\ 1 < i + 1
  BY <1>3
<1>5. ASSUME NEW i \in DOMAIN f, i # 1
      PROVE  \E j \in DOMAIN t : t[j] = f[i]
  <2>1. i - 1 \in DOMAIN t /\ (i - 1) + 1 = i
    BY <1>3, <1>5
  <2> QED
    BY <2>1, <1>4
<1>6. \A i, j \in DOMAIN t : i < j /\ t[i] # 0 /\ t[j] # 0 => t[i] < t[j]
  <2> SUFFICES ASSUME NEW i \in DOMAIN t, NEW j \in DOMAIN t, i < j, t[i] # 0, t[j] # 0
               PROVE  t[i] < t[j]
    OBVIOUS
  <2>1. i + 1 < j + 1
    BY <1>4
  <2> QED
    BY <2>1, <1>1, <1>4 DEF Ascending
<1>7. 1 \in DOMAIN f /\ p \in Nat
  BY <1>2, <1>3
<1>8. CASE f[1] = 0
  <2>1. \A k \in 1 .. n : (\E i \in DOMAIN t : t[i] = k) <=> (\E i \in DOMAIN f : f[i] = k)
    <3> SUFFICES ASSUME NEW k \in 1 .. n
                 PROVE  (\E i \in DOMAIN t : t[i] = k) <=> (\E i \in DOMAIN f : f[i] = k)
      OBVIOUS
    <3>1. \A i \in DOMAIN f : f[i] = k => i # 1
      BY <1>8
    <3> QED
      BY <3>1, <1>4, <1>5
  <2>2. Ascending(t, p, n)
    BY <2>1, <1>1, <1>6 DEF Ascending
  <2> QED
    BY <2>2, <1>2, <1>8 DEF Wired, Line
<1>9. CASE f[1] # 0
  <2> DEFINE k == f[1]
  <2>1. k \in 1 .. n /\ k \in Nat /\ k > p
    <3>1. k \in 1 .. n
      BY <1>2, <1>9
    <3> QED
      BY <3>1, <1>1, <1>7 DEF Ascending
  <2>2. ASSUME NEW i \in DOMAIN f, i # 1, f[i] # 0
        PROVE  k < f[i]
    <3>1. 1 < i
      BY <2>2, <1>3
    <3> QED
      BY <3>1, <2>2, <1>1, <1>7, <1>9 DEF Ascending
  <2> HIDE DEF k
  <2>3. k = p + 1
    <3>1. p + 1 \in 1 .. n /\ p + 1 > p /\ p + 1 \in Nat
      BY <2>1, <1>7
    <3>2. PICK i \in DOMAIN f : f[i] = p + 1
      BY <3>1, <1>1 DEF Ascending
    <3>3. f[i] # 0
      BY <3>2, <1>7
    <3> QED
      BY <3>1, <3>2, <3>3, <2>1, <2>2, <1>7 DEF k
  <2>4. ASSUME NEW j \in 1 .. n
        PROVE  j > p + 1 <=> \E i \in DOMAIN t : t[i] = j
    <3>1. j \in Nat /\ j # 0
      OBVIOUS
    <3>2. ASSUME j > p + 1
          PROVE  \E i \in DOMAIN t : t[i] = j
      <4>1. PICK i \in DOMAIN f : f[i] = j
        BY <3>1, <3>2, <1>1, <1>7 DEF Ascending
      <4>2. i # 1
        BY <4>1, <3>1, <3>2, <2>3, <1>7 DEF k
      <4> QED
        BY <4>1, <4>2, <1>5
    <3>3. ASSUME NEW i \in DOMAIN t, t[i] = j
          PROVE  j > p + 1
      <4>1. i + 1 \in DOMAIN f /\ f[i + 1] = j /\ i + 1 # 1
        BY <3>3, <1>4
      <4> QED
        BY <4>1, <3>1, <2>2, <2>3, <1>7
    <3> QED
      BY <3>2, <3>3
  <2>5. Ascending(t, p + 1, n)
    BY <2>4, <1>6 DEF Ascending
  <2>6. s[1] = script[p + 1]
    BY <2>3, <1>2, <1>9 DEF Line, k
  <2> QED
    BY <2>1, <2>3, <2>5, <2>6, <1>2 DEF Wired
<1> QED
  BY <1>2, <1>8, <1>9

LEMMA WiredOut ==
  ASSUME NEW n \in Nat, NEW p \in 0 .. n, Wired(<<>>, p, n)
  PROVE  p = n
<1>1. PICK f \in Seq(0 .. n) : Framed(<<>>, f) /\ Ascending(f, p, n)
  BY DEF Wired
<1>2. Len(f) \in Nat /\ DOMAIN f = 1 .. Len(f) /\ 0 = 3 * Len(f)
  BY <1>1 DEF Framed
<1>3. DOMAIN f = {}
  BY <1>2
<1>4. n \in 1 .. n => ~(n > p)
  BY <1>1, <1>3 DEF Ascending
<1> QED
  BY <1>4

------------------------------------------------------------------------------
\* The script is fixed before the answer starts.
LEMMA ScriptKept ==
  ASSUME WireInv, UNCHANGED <<who, script>>
  PROVE  /\ ScriptOK' /\ Tokens' = Tokens /\ Meaningful' = Meaningful
         /\ Range(script)' = Range(script)
         /\ \A p : Wired(buffer \o wire, p, next)' <=> Wired(buffer' \o wire', p, next')
<1>1. ScriptOK' /\ Tokens' = Tokens /\ Meaningful' = Meaningful /\ Range(script)' = Range(script)
  BY DEF WireInv, ScriptOK, Tokens, Meaningful
<1>2. \A k : Line(k)' = Line(k)
  BY DEF Line
<1>3. \A p : Wired(buffer \o wire, p, next)' <=> Wired(buffer' \o wire', p, next')
  BY <1>2 DEF Wired, Framed, Ascending
<1> QED
  BY <1>1, <1>3

LEMMA Rechunked ==
  ASSUME NEW T, NEW b \in Seq(T), NEW w \in Seq(T), NEW n \in 1 .. Len(w)
  PROVE  /\ b \o SubSeq(w, 1, n) \in Seq(T) /\ SubSeq(w, n + 1, Len(w)) \in Seq(T)
         /\ (b \o SubSeq(w, 1, n)) \o SubSeq(w, n + 1, Len(w)) = b \o w
<1> DEFINE u == SubSeq(w, 1, n)
           v == SubSeq(w, n + 1, Len(w))
<1>0. Len(w) \in Nat /\ DOMAIN w = 1 .. Len(w) /\ n \in Nat /\ n >= 1 /\ n <= Len(w)
      /\ n - 1 + 1 = n /\ Len(w) - (n + 1) + 1 = Len(w) - n /\ Len(w) - n \in Nat
  OBVIOUS
<1>1. u \in Seq(T) /\ Len(u) = n /\ \A i \in 1 .. n : u[i] = w[i]
  BY <1>0
<1>2. /\ v \in Seq(T) /\ Len(v) = Len(w) - n
      /\ \A i \in 1 .. (Len(w) - n) : v[i] = w[n + i]
  <2>1. n + 1 \in Int /\ Len(w) \in Int /\ \A i \in (n + 1) .. Len(w) : w[i] \in T
    BY <1>0
  <2>2. /\ v \in Seq(T) /\ Len(v) = IF n + 1 <= Len(w) THEN Len(w) - (n + 1) + 1 ELSE 0
        /\ \A i \in 1 .. (Len(w) - (n + 1) + 1) : v[i] = w[(n + 1) + i - 1]
    BY <2>1, SubSeqProperties
  <2>3. \A i \in 1 .. (Len(w) - n) : (n + 1) + i - 1 = n + i
    BY <1>0
  <2>4. (IF n + 1 <= Len(w) THEN Len(w) - n ELSE 0) = Len(w) - n
    <3>1. CASE n + 1 <= Len(w)
      BY <3>1
    <3>2. CASE ~(n + 1 <= Len(w))
      <4>0. \A a, c \in Nat : a <= c /\ ~(a + 1 <= c) => a = c
        OBVIOUS
      <4>1. n = Len(w)
        BY <4>0, <3>2, <1>0
      <4> QED
        BY <4>1, <1>0
    <3> QED
      BY <3>1, <3>2
  <2> HIDE DEF v
  <2> QED
    BY <2>2, <2>3, <2>4, <1>0
<1> HIDE DEF u, v
<1>4. Len(b) \in Nat /\ Len(b) + n \in Nat
  BY <1>0
<1>5. /\ b \o u \in Seq(T) /\ Len(b \o u) = Len(b) + n
      /\ \A i \in 1 .. (Len(b) + n) : (b \o u)[i] = IF i <= Len(b) THEN b[i] ELSE u[i - Len(b)]
  BY <1>1, ConcatProperties
<1> DEFINE x == b \o u
<1> HIDE DEF x
<1>6. /\ x \o v \in Seq(T) /\ Len(x \o v) = Len(x) + Len(v)
      /\ \A i \in 1 .. (Len(x) + Len(v)) : (x \o v)[i] = IF i <= Len(x) THEN x[i] ELSE v[i - Len(x)]
  BY <1>2, <1>5, ConcatProperties DEF x
<1>7. /\ b \o w \in Seq(T) /\ Len(b \o w) = Len(b) + Len(w)
      /\ \A i \in 1 .. (Len(b) + Len(w)) : (b \o w)[i] = IF i <= Len(b) THEN b[i] ELSE w[i - Len(b)]
  BY ConcatProperties
<1>8. Len(x) = Len(b) + n /\ Len(x) + Len(v) = Len(b) + Len(w)
  BY <1>0, <1>2, <1>4, <1>5 DEF x
<1>9. ASSUME NEW i \in 1 .. (Len(b) + Len(w))
      PROVE  (x \o v)[i] = (b \o w)[i]
  <2>1. i \in Nat /\ i >= 1 /\ i <= Len(b) + Len(w)
    BY <1>0, <1>4
  <2>2. CASE i <= Len(b)
    <3>1. i <= Len(x) /\ i \in 1 .. (Len(b) + n)
      BY <2>1, <2>2, <1>0, <1>4, <1>8
    <3> QED
      BY <2>2, <3>1, <1>5, <1>6, <1>7, <1>8 DEF x
  <2>3. CASE ~(i <= Len(b)) /\ i <= Len(x)
    <3>1. i \in 1 .. (Len(b) + n) /\ i - Len(b) \in 1 .. n
      BY <2>1, <2>3, <1>0, <1>4, <1>8
    <3>2. x[i] = w[i - Len(b)]
      BY <2>3, <3>1, <1>1, <1>5 DEF x
    <3> QED
      BY <2>3, <3>2, <1>6, <1>7, <1>8
  <2>4. CASE ~(i <= Len(b)) /\ ~(i <= Len(x))
    <3>1. i - Len(x) \in 1 .. (Len(w) - n) /\ n + (i - Len(x)) = i - Len(b)
      BY <2>1, <2>4, <1>0, <1>4, <1>8
    <3>2. v[i - Len(x)] = w[i - Len(b)]
      BY <3>1, <1>2
    <3> QED
      BY <2>4, <3>2, <1>6, <1>7, <1>8
  <2> QED
    BY <2>2, <2>3, <2>4
<1>10. x \o v = b \o w
  <2>1. Len(x \o v) = Len(b \o w) /\ \A i \in 1 .. Len(x \o v) : (x \o v)[i] = (b \o w)[i]
    BY <1>6, <1>7, <1>8, <1>9
  <2> QED
    BY <2>1, <1>6, <1>7, SeqEqual
<1> QED
  BY <1>2, <1>5, <1>10 DEF u, v, x

LEMMA HeadDropped ==
  ASSUME NEW T, NEW b \in Seq(T), NEW w \in Seq(T), Len(b) >= 3
  PROVE  /\ SubSeq(b, 4, Len(b)) \in Seq(T)
         /\ b \o w \in Seq(T) /\ Len(b \o w) >= 3
         /\ \A i \in 1 .. Len(b) : (b \o w)[i] = b[i]
         /\ SubSeq(b \o w, 4, Len(b \o w)) = SubSeq(b, 4, Len(b)) \o w
<1> DEFINE c == SubSeq(b, 4, Len(b))
           s == b \o w
           t == SubSeq(s, 4, Len(s))
<1>0. Len(b) \in Nat /\ Len(w) \in Nat /\ Len(b) - 3 \in Nat /\ Len(b) - 4 + 1 = Len(b) - 3
  OBVIOUS
<1>1. /\ s \in Seq(T) /\ Len(s) = Len(b) + Len(w)
      /\ \A i \in 1 .. (Len(b) + Len(w)) : s[i] = IF i <= Len(b) THEN b[i] ELSE w[i - Len(b)]
  BY ConcatProperties
<1>2. ASSUME NEW q \in Seq(T), Len(q) >= 3
      PROVE  /\ SubSeq(q, 4, Len(q)) \in Seq(T) /\ Len(SubSeq(q, 4, Len(q))) = Len(q) - 3
             /\ \A i \in 1 .. (Len(q) - 3) : SubSeq(q, 4, Len(q))[i] = q[i + 3]
  <2>1. Len(q) \in Int /\ 4 \in Int /\ Len(q) \in Nat /\ \A i \in 4 .. Len(q) : q[i] \in T
    OBVIOUS
  <2>2. /\ SubSeq(q, 4, Len(q)) \in Seq(T)
        /\ Len(SubSeq(q, 4, Len(q))) = IF 4 <= Len(q) THEN Len(q) - 4 + 1 ELSE 0
        /\ \A i \in 1 .. (Len(q) - 4 + 1) : SubSeq(q, 4, Len(q))[i] = q[4 + i - 1]
    BY <2>1, SubSeqProperties
  <2>3. (IF 4 <= Len(q) THEN Len(q) - 4 + 1 ELSE 0) = Len(q) - 3 /\ Len(q) - 4 + 1 = Len(q) - 3
    <3>1. Len(q) - 4 + 1 = Len(q) - 3
      BY <2>1
    <3>2. CASE 4 <= Len(q)
      BY <3>1, <3>2
    <3>3. CASE ~(4 <= Len(q))
      <4>0. \A a \in Nat : a >= 3 /\ ~(4 <= a) => a = 3
        OBVIOUS
      <4>1. Len(q) = 3
        BY <4>0, <3>3, <2>1, <1>2
      <4> QED
        BY <4>1, <3>1
    <3> QED
      BY <3>2, <3>3
  <2>4. \A i \in 1 .. (Len(q) - 3) : 4 + i - 1 = i + 3
    BY <2>1
  <2> QED
    BY <2>2, <2>3, <2>4
<1> HIDE DEF s
<1>3. Len(s) >= 3
  BY <1>0, <1>1
<1>4. /\ t \in Seq(T) /\ Len(t) = Len(s) - 3
      /\ \A i \in 1 .. (Len(s) - 3) : t[i] = s[i + 3]
  BY <1>1, <1>2, <1>3
<1>5. /\ c \in Seq(T) /\ Len(c) = Len(b) - 3
      /\ \A i \in 1 .. (Len(b) - 3) : c[i] = b[i + 3]
  BY <1>2
<1> HIDE DEF c, t
<1>6. /\ c \o w \in Seq(T) /\ Len(c \o w) = Len(c) + Len(w)
      /\ \A i \in 1 .. (Len(c) + Len(w)) : (c \o w)[i] = IF i <= Len(c) THEN c[i] ELSE w[i - Len(c)]
  BY <1>5, ConcatProperties
<1>7. Len(t) = Len(c \o w) /\ Len(t) = Len(c) + Len(w) /\ Len(t) \in Nat
  BY <1>0, <1>1, <1>4, <1>5, <1>6
<1>8. ASSUME NEW i \in 1 .. Len(t)
      PROVE  t[i] = (c \o w)[i]
  <2>1. i \in Nat /\ i >= 1 /\ i + 3 \in 1 .. (Len(b) + Len(w)) /\ t[i] = s[i + 3]
    BY <1>0, <1>1, <1>4, <1>7
  <2>2. CASE i <= Len(c)
    <3>1. i + 3 <= Len(b) /\ i \in 1 .. (Len(b) - 3)
      BY <2>1, <2>2, <1>0, <1>5
    <3> QED
      BY <2>1, <2>2, <3>1, <1>1, <1>5, <1>6, <1>7
  <2>3. CASE ~(i <= Len(c))
    <3>1. ~(i + 3 <= Len(b)) /\ (i + 3) - Len(b) = i - Len(c)
      BY <2>1, <2>3, <1>0, <1>5
    <3> QED
      BY <2>1, <2>3, <3>1, <1>1, <1>6, <1>7
  <2> QED
    BY <2>2, <2>3
<1>9. t = c \o w
  BY <1>4, <1>6, <1>7, <1>8, SeqEqual
<1>10. \A i \in 1 .. Len(b) : s[i] = b[i]
  BY <1>0, <1>1
<1> QED
  BY <1>1, <1>3, <1>5, <1>9, <1>10 DEF s, c, t

------------------------------------------------------------------------------
LEMMA ShapeParts ==
  ASSUME WireInv
  PROVE  /\ script \in Seq(Payloads) /\ Len(script) \in Nat /\ DOMAIN script = 1 .. Len(script)
         /\ next \in 0 .. Len(script) /\ next \in Nat /\ beats \in 0 .. MaxBeats
         /\ wire \in Seq(Tokens) /\ buffer \in Seq(Tokens) /\ delivered \in Seq(Range(script))
         /\ writer \in {"none", "open", "closed"} /\ outcome \in {"pending", "resolved", "rejected"}
         /\ <<Colon, NL, NL>> \in Seq(Tokens)
<1>1. /\ next \in 0 .. Len(script) /\ beats \in 0 .. MaxBeats
      /\ wire \in Seq(Tokens) /\ buffer \in Seq(Tokens) /\ delivered \in Seq(Range(script))
      /\ writer \in {"none", "open", "closed"} /\ outcome \in {"pending", "resolved", "rejected"}
  BY Zenon DEF WireInv, WireShape
<1>2. script \in Seq(Payloads)
  BY DEF WireInv, ScriptOK
<1>3. Len(script) \in Nat /\ DOMAIN script = 1 .. Len(script)
  BY <1>2
<1>4. next \in Nat
  BY <1>1, <1>3
<1>5. <<Colon, NL, NL>> \in Seq(Tokens)
  BY DEF Tokens
<1> QED
  BY <1>1, <1>2, <1>3, <1>4, <1>5

LEMMA AcceptedInv ==
  ASSUME WireInv, Accepted
  PROVE  WireInv'
<1>1. ScriptOK /\ WireShape /\ DeliveredSoFar /\ Requested /\ ~parsing /\ Boundaries = {}
  BY DEF WireInv, Accepted, Requested
<1>2. /\ conn' = "stream" /\ writer' = "open" /\ UNCHANGED <<who, script, next, beats>>
      /\ UNCHANGED <<buffer, parsing, sawFinish, outcome, delivered>>
      /\ wire' = IF who = "recall" THEN <<Colon, NL, NL>> ELSE <<>>
  BY DEF Accepted, clientVars
<1>3. /\ ScriptOK' /\ Tokens' = Tokens /\ Meaningful' = Meaningful /\ Range(script)' = Range(script)
      /\ \A p : Wired(buffer \o wire, p, next)' <=> Wired(buffer' \o wire', p, next')
  BY <1>2, ScriptKept
<1>4. <<>> \in Seq(Tokens) /\ <<Colon, NL, NL>> \in Seq(Tokens)
  BY DEF Tokens
<1>5. WireShape'
  <2>1. wire' \in Seq(Tokens')
    BY <1>2, <1>3, <1>4
  <2> QED
    BY <2>1, <1>1, <1>2, <1>3 DEF WireShape
<1>6. DeliveredSoFar' /\ Boundaries' = {}
  BY <1>1, <1>2, <1>3 DEF DeliveredSoFar, Boundaries
<1>7. Wired(buffer' \o wire', 0, next')
  <2>1. Wired(<<>>, 0, 0)
    <3>1. Framed(<<>>, <<>>) /\ Ascending(<<>>, 0, 0) /\ <<>> \in Seq(0 .. 0)
      BY DEF Framed, Ascending
    <3> QED
      BY <3>1 DEF Wired
  <2>2. buffer' = <<>> /\ next' = 0
    BY <1>1, <1>2 DEF Requested
  <2>3. CASE who = "recall"
    <3>1. Wired(<<>> \o <<Colon, NL, NL>>, 0, 0)
      BY <2>1, <1>4, WiredBeat
    <3> QED
      BY <3>1, <2>2, <2>3, <1>2
  <2>4. CASE who # "recall"
    <3>1. <<>> \o <<>> = <<>>
      OBVIOUS
    <3> QED
      BY <3>1, <2>1, <2>2, <2>4, <1>2
  <2> QED
    BY <2>3, <2>4
<1>8. Parsed(0)'
  <2>1. Len(Meaningful) \in Nat
    BY <1>1, MeaningfulFits
  <2>2. next' = 0 /\ delivered' = <<>> /\ Len(delivered') = 0 /\ 0 \in 0 .. 0 /\ 0 <= Len(Meaningful)
    BY <2>1, <1>1, <1>2 DEF Requested
  <2> QED
    BY <2>2, <1>3 DEF Parsed
<1>9. Streaming'
  <2>1. next' = 0 /\ 0 \in 0 .. 0
    BY <1>1, <1>2 DEF Requested
  <2>2. Wired(buffer \o wire, 0, next)'
    BY <1>3, <1>7
  <2> QED
    BY <2>1, <2>2, <1>2, <1>8 DEF Streaming
<1> QED
  BY <1>1, <1>2, <1>3, <1>5, <1>6, <1>9 DEF WireInv, Requested

LEMMA NoAnswerInv ==
  ASSUME WireInv, Refused \/ NotReached
  PROVE  WireInv'
<1>1. ScriptOK /\ WireShape /\ DeliveredSoFar /\ Requested /\ ~parsing /\ Boundaries = {}
  BY DEF WireInv, Refused, NotReached, Requested
<1>2. /\ conn' \in {"refused", "down"} /\ UNCHANGED <<who, script, next, beats, writer, wire>>
      /\ UNCHANGED <<buffer, parsing, sawFinish, delivered>>
      /\ outcome' \in {"pending", "rejected"}
  BY <1>1 DEF Refused, NotReached, clientVars, serverVars, Settle, Requested
<1>3. /\ ScriptOK' /\ Tokens' = Tokens /\ Meaningful' = Meaningful /\ Range(script)' = Range(script)
  BY <1>2, ScriptKept
<1>4. WireShape'
  BY <1>1, <1>2, <1>3 DEF WireShape
<1>5. DeliveredSoFar' /\ Boundaries' = {}
  BY <1>1, <1>2, <1>3 DEF DeliveredSoFar, Boundaries
<1> QED
  BY <1>1, <1>2, <1>3, <1>4, <1>5 DEF WireInv

\* A step of the server: it may add a frame to the stream.
LEMMA ServerInv ==
  ASSUME WireInv, conn # "request", UNCHANGED <<who, script, conn>>, UNCHANGED clientVars,
         writer' \in {"none", "open", "closed"}, next' \in 0 .. Len(script), beats' \in 0 .. MaxBeats,
         wire' \in Seq(Tokens), conn = "stream" => Streaming'
  PROVE  WireInv'
<1>1. ScriptOK /\ WireShape /\ DeliveredSoFar
  BY DEF WireInv
<1>2. /\ ScriptOK' /\ Tokens' = Tokens /\ Meaningful' = Meaningful /\ Range(script)' = Range(script)
  BY ScriptKept
<1>3. WireShape'
  BY <1>1, <1>2 DEF WireShape, clientVars
<1>4. DeliveredSoFar' /\ Boundaries' = Boundaries
  BY <1>1, <1>2 DEF DeliveredSoFar, Boundaries, clientVars
<1> QED
  BY <1>2, <1>3, <1>4 DEF WireInv, clientVars

LEMMA PumpInv ==
  ASSUME WireInv, Pump
  PROVE  WireInv'
<1>1. ScriptOK /\ WireShape /\ conn # "request"
  BY DEF WireInv, Pump, Requested
<1>2. /\ writer # "none" /\ next < Len(script) /\ next' = next + 1
      /\ wire' = (IF writer = "open" THEN wire \o <<script[next + 1], NL, NL>> ELSE wire)
      /\ UNCHANGED <<who, script, beats, writer, conn>> /\ UNCHANGED clientVars
  BY DEF Pump, Write
<1>3. Len(script) \in Nat /\ next \in Nat /\ next \in 0 .. Len(script) /\ DOMAIN script = 1 .. Len(script)
  BY ShapeParts
<1>4. next + 1 \in 0 .. Len(script) /\ next + 1 \in DOMAIN script
  BY <1>2, <1>3
<1>5. <<script[next + 1], NL, NL>> \in Seq(Tokens) /\ wire \in Seq(Tokens) /\ buffer \in Seq(Tokens)
  <2>1. script[next + 1] \in Tokens /\ NL \in Tokens
    BY <1>4 DEF Tokens, Range
  <2>2. <<script[next + 1], NL, NL>> \in Seq(Tokens)
    BY <2>1
  <2> QED
    BY <2>2, ShapeParts
<1>6. wire' \in Seq(Tokens)
  BY <1>2, <1>5
<1>7. ASSUME conn = "stream"
      PROVE  Streaming'
  <2>1. Streaming
    BY <1>7 DEF WireInv
  <2>2. writer = "open"
    <3>1. writer # "closed"
      <4>0. \A a, b \in Nat : a < b => a # b
        OBVIOUS
      <4>1. next # Len(script)
        BY <4>0, <1>2, <1>3
      <4> QED
        BY <2>1, <4>1 DEF Streaming
    <3> QED
      BY <3>1, <1>2, ShapeParts
  <2>3. PICK p \in 0 .. next : Parsed(p) /\ Wired(buffer \o wire, p, next)
    BY <2>1 DEF Streaming
  <2>4. Wired((buffer \o wire) \o <<script[next + 1], NL, NL>>, p, next + 1)
    <3>1. buffer \o wire \in Seq(Tokens)
      BY <1>5
    <3> QED
      BY <3>1, <2>3, <1>3, <1>4, WiredPayload
  <2>5. (buffer \o wire) \o <<script[next + 1], NL, NL>> = buffer \o wire'
    <3> DEFINE x == <<script[next + 1], NL, NL>>
    <3>1. x \in Seq(Tokens) /\ wire' = wire \o x
      BY <2>2, <1>2, <1>5
    <3> HIDE DEF x
    <3>2. (buffer \o wire) \o x = buffer \o (wire \o x)
      BY <3>1, <1>5, ConcatAssociative
    <3> QED
      BY <3>1, <3>2 DEF x
  <2>6. Wired(buffer \o wire, p, next)'
    <3>1. Wired(buffer \o wire, p, next)' <=> Wired(buffer' \o wire', p, next')
      BY <1>2, ScriptKept
    <3>2. buffer' = buffer
      BY <1>2 DEF clientVars
    <3> QED
      BY <3>1, <3>2, <2>4, <2>5, <1>2
  <2>7. p \in 0 .. next'
    BY <1>2, <1>3
  <2>8. Parsed(p)'
    <3>1. Meaningful' = Meaningful
      BY <1>2, ScriptKept
    <3> QED
      BY <3>1, <2>3, <2>7, <1>2 DEF Parsed, clientVars
  <2> QED
    BY <2>2, <2>6, <2>7, <2>8, <1>2 DEF Streaming
<1>8. writer' \in {"none", "open", "closed"} /\ beats' \in 0 .. MaxBeats
  BY <1>2, ShapeParts
<1> QED
  BY <1>1, <1>2, <1>4, <1>6, <1>7, <1>8, ServerInv

LEMMA BeatInv ==
  ASSUME WireInv, Beat
  PROVE  WireInv'
<1>1. ScriptOK /\ WireShape /\ conn # "request"
  BY DEF WireInv, Beat, Requested
<1>2. /\ writer = "open" /\ beats' = beats + 1 /\ beats < MaxBeats /\ wire' = wire \o <<Colon, NL, NL>>
      /\ UNCHANGED <<who, script, next, writer, conn>> /\ UNCHANGED clientVars
  BY DEF Beat, Write
<1>3. <<Colon, NL, NL>> \in Seq(Tokens) /\ wire \in Seq(Tokens) /\ buffer \in Seq(Tokens)
  BY ShapeParts
<1>4. wire' \in Seq(Tokens) /\ beats' \in 0 .. MaxBeats
  <2>1. beats \in 0 .. MaxBeats /\ MaxBeats \in Nat
    BY ShapeParts, WireAssumption
  <2> QED
    BY <2>1, <1>2, <1>3
<1>5. ASSUME conn = "stream"
      PROVE  Streaming'
  <2>1. PICK p \in 0 .. next : Parsed(p) /\ Wired(buffer \o wire, p, next)
    BY <1>5 DEF WireInv, Streaming
  <2>2. next \in Nat /\ p \in Nat
    <3>1. next \in Nat
      BY ShapeParts
    <3> QED
      BY <3>1
  <2>3. Wired((buffer \o wire) \o <<Colon, NL, NL>>, p, next)
    <3>1. buffer \o wire \in Seq(Tokens)
      BY <1>3
    <3> QED
      BY <3>1, <2>1, <2>2, WiredBeat
  <2>4. (buffer \o wire) \o <<Colon, NL, NL>> = buffer \o wire'
    <3> DEFINE x == <<Colon, NL, NL>>
    <3>1. x \in Seq(Tokens) /\ wire' = wire \o x
      BY <1>2, <1>3
    <3> HIDE DEF x
    <3>2. (buffer \o wire) \o x = buffer \o (wire \o x)
      BY <3>1, <1>3, ConcatAssociative
    <3> QED
      BY <3>1, <3>2 DEF x
  <2>5. Wired(buffer \o wire, p, next)'
    <3>1. Wired(buffer \o wire, p, next)' <=> Wired(buffer' \o wire', p, next')
      BY <1>2, ScriptKept
    <3>2. buffer' = buffer
      BY <1>2 DEF clientVars
    <3> QED
      BY <3>1, <3>2, <2>3, <2>4, <1>2
  <2>6. Parsed(p)'
    <3>1. Meaningful' = Meaningful
      BY <1>2, ScriptKept
    <3> QED
      BY <3>1, <2>1, <1>2 DEF Parsed, clientVars
  <2> QED
    BY <2>1, <2>5, <2>6, <1>2 DEF Streaming
<1>6. writer' \in {"none", "open", "closed"} /\ next' \in 0 .. Len(script)
  BY <1>2, ShapeParts
<1> QED
  BY <1>1, <1>2, <1>4, <1>5, <1>6, ServerInv

LEMMA WriterClosesInv ==
  ASSUME WireInv, PumpEnds \/ AbortSeen
  PROVE  WireInv'
<1>1. ScriptOK /\ WireShape /\ conn # "request"
  BY DEF WireInv, PumpEnds, AbortSeen, Requested
<1>2. /\ writer' = "closed" /\ (conn = "stream" => next = Len(script))
      /\ UNCHANGED <<who, script, next, beats, wire, conn>> /\ UNCHANGED clientVars
  BY DEF PumpEnds, AbortSeen
<1>3. ASSUME conn = "stream"
      PROVE  Streaming'
  <2>1. PICK p \in 0 .. next : Parsed(p) /\ Wired(buffer \o wire, p, next)
    BY <1>3 DEF WireInv, Streaming
  <2>2. Wired(buffer \o wire, p, next)'
    <3>1. Wired(buffer \o wire, p, next)' <=> Wired(buffer' \o wire', p, next')
      BY <1>2, ScriptKept
    <3> QED
      BY <3>1, <2>1, <1>2 DEF clientVars
  <2>3. Parsed(p)'
    <3>1. Meaningful' = Meaningful
      BY <1>2, ScriptKept
    <3> QED
      BY <3>1, <2>1, <1>2 DEF Parsed, clientVars
  <2> QED
    BY <2>1, <2>2, <2>3, <1>2, <1>3 DEF Streaming
<1>4. /\ writer' \in {"none", "open", "closed"} /\ next' \in 0 .. Len(script)
      /\ beats' \in 0 .. MaxBeats /\ wire' \in Seq(Tokens)
  BY <1>2, ShapeParts
<1> QED
  BY <1>1, <1>2, <1>3, <1>4, ServerInv

------------------------------------------------------------------------------
\* A step that takes the client off the stream.
LEMMA OffStreamInv ==
  ASSUME WireInv, ~parsing, conn' \notin {"request", "stream"}, UNCHANGED <<who, script, beats>>,
         UNCHANGED <<buffer, parsing, sawFinish, delivered>>, wire' \in Seq(Tokens),
         writer' \in {"none", "open", "closed"}, next' \in 0 .. Len(script),
         conn' \in {"refused", "refused, cut", "cut", "destroyed", "down"},
         outcome' = outcome \/ (outcome = "pending" /\ outcome' = "rejected"),
         outcome # "resolved"
  PROVE  WireInv'
<1>1. ScriptOK /\ WireShape /\ DeliveredSoFar
  BY DEF WireInv
<1>2. /\ ScriptOK' /\ Tokens' = Tokens /\ Meaningful' = Meaningful /\ Range(script)' = Range(script)
  BY ScriptKept
<1>3. WireShape'
  <2>1. outcome' \in {"pending", "resolved", "rejected"}
    BY ShapeParts
  <2> QED
    BY <2>1, <1>1, <1>2 DEF WireShape
<1>4. DeliveredSoFar' /\ Boundaries' = Boundaries
  BY <1>1, <1>2 DEF DeliveredSoFar, Boundaries
<1>5. outcome' # "resolved" /\ (outcome' = "pending" => outcome = "pending")
  OBVIOUS
<1> QED
  BY <1>2, <1>3, <1>4, <1>5 DEF WireInv

\* Only a settled request is resolved.
LEMMA BrokenInv ==
  ASSUME WireInv, Cut \/ Interrupted \/ UserAborts
  PROVE  WireInv'
<1>1. outcome # "resolved"
  BY DEF WireInv, Cut, Interrupted, UserAborts
<1>2. ~parsing
  BY DEF WireInv, Cut, Interrupted, UserAborts
<1>3. CASE Cut
  <2>1. wire' \in Seq(Tokens) /\ Len(script) \in 0 .. Len(script)
    <3>0. wire' = <<>>
      BY <1>3 DEF Cut
    <3>1. wire' = <<>> /\ <<>> \in Seq(Tokens)
      BY <3>0
    <3>2. \A n \in Nat : n \in 0 .. n
      OBVIOUS
    <3> QED
      BY <3>1, <3>2, ShapeParts
  <2> QED
    BY <1>1, <1>2, <1>3, <2>1, OffStreamInv DEF Cut, clientVars
<1>4. CASE Interrupted
  <2>1. /\ wire' \in Seq(Tokens) /\ next' \in 0 .. Len(script) /\ writer' \in {"none", "open", "closed"}
        /\ conn' = "down" /\ UNCHANGED <<who, script, beats>>
        /\ UNCHANGED <<buffer, parsing, sawFinish, delivered>>
    BY <1>4, ShapeParts DEF Interrupted, serverVars
  <2>2. outcome' = outcome \/ (outcome = "pending" /\ outcome' = "rejected")
    BY <1>4 DEF Interrupted, Settle
  <2> QED
    BY <1>1, <1>2, <2>1, <2>2, OffStreamInv
<1>5. CASE UserAborts
  <2>1. /\ wire' \in Seq(Tokens) /\ next' \in 0 .. Len(script) /\ writer' \in {"none", "open", "closed"}
        /\ conn' = "destroyed" /\ UNCHANGED <<who, script, beats>>
        /\ UNCHANGED <<buffer, parsing, sawFinish, delivered>>
    BY <1>5, ShapeParts DEF UserAborts, serverVars
  <2>2. outcome' = outcome \/ (outcome = "pending" /\ outcome' = "rejected")
    BY <1>5 DEF UserAborts, Settle
  <2> QED
    BY <1>1, <1>2, <2>1, <2>2, OffStreamInv
<1> QED
  BY <1>3, <1>4, <1>5

LEMMA ReceiveInv ==
  ASSUME WireInv, Receive
  PROVE  WireInv'
<1>1. ScriptOK /\ WireShape /\ DeliveredSoFar /\ Streaming
  BY DEF WireInv, Receive
<1>2. PICK n \in 1 .. Len(wire) : /\ buffer' = buffer \o SubSeq(wire, 1, n)
                                  /\ wire' = SubSeq(wire, n + 1, Len(wire))
  BY DEF Receive
<1>3. /\ conn = "stream" /\ conn' = "stream" /\ parsing' = TRUE
      /\ UNCHANGED <<who, script, next, beats, writer, sawFinish, outcome, delivered>>
  BY DEF Receive, serverVars
<1>4. buffer \in Seq(Tokens) /\ wire \in Seq(Tokens)
  BY ShapeParts
<1>5. buffer' \in Seq(Tokens) /\ wire' \in Seq(Tokens) /\ buffer' \o wire' = buffer \o wire
  BY <1>2, <1>4, Rechunked
<1>6. /\ ScriptOK' /\ Tokens' = Tokens /\ Meaningful' = Meaningful /\ Range(script)' = Range(script)
      /\ \A p : Wired(buffer \o wire, p, next)' <=> Wired(buffer' \o wire', p, next')
  BY <1>3, ScriptKept
<1>7. WireShape'
  <2>1. buffer' \in Seq(Tokens') /\ wire' \in Seq(Tokens')
    BY <1>5, <1>6
  <2>2. parsing' \in BOOLEAN /\ conn' = conn
    BY <1>3
  <2> QED
    BY <2>1, <2>2, <1>1, <1>3, <1>6, Zenon DEF WireShape
<1>8. DeliveredSoFar'
  BY <1>1, <1>3, <1>6 DEF DeliveredSoFar
<1>9. Streaming'
  <2>1. PICK p \in 0 .. next : Parsed(p) /\ Wired(buffer \o wire, p, next)
    BY <1>1 DEF Streaming
  <2>2. Wired(buffer \o wire, p, next)'
    BY <2>1, <1>3, <1>5, <1>6
  <2>3. Parsed(p)'
    BY <2>1, <1>3, <1>6 DEF Parsed
  <2> QED
    BY <2>2, <2>3, <1>1, <1>3 DEF Streaming
<1>10. outcome' # "resolved"
  BY <1>3 DEF WireInv
<1> QED
  BY <1>3, <1>6, <1>7, <1>8, <1>9, <1>10 DEF WireInv

LEMMA NoFrameLeftInv ==
  ASSUME WireInv, NoFrameLeft
  PROVE  WireInv'
<1>1. ScriptOK /\ WireShape /\ DeliveredSoFar /\ conn = "stream" /\ outcome # "resolved"
  BY DEF WireInv, NoFrameLeft
<1>2. /\ parsing' = FALSE /\ Boundaries = {}
      /\ UNCHANGED <<who, script, next, beats, writer, wire, conn>>
      /\ UNCHANGED <<buffer, sawFinish, outcome, delivered>>
  BY DEF NoFrameLeft, serverVars
<1>3. /\ ScriptOK' /\ Tokens' = Tokens /\ Meaningful' = Meaningful /\ Range(script)' = Range(script)
      /\ \A p : Wired(buffer \o wire, p, next)' <=> Wired(buffer' \o wire', p, next')
  BY <1>2, ScriptKept
<1>4. WireShape'
  <2>1. parsing' \in BOOLEAN
    BY <1>2
  <2> QED
    BY <2>1, <1>1, <1>2, <1>3, Zenon DEF WireShape
<1>5. DeliveredSoFar' /\ Boundaries' = {}
  BY <1>1, <1>2, <1>3 DEF DeliveredSoFar, Boundaries
<1>6. Streaming'
  <2>1. PICK p \in 0 .. next : Parsed(p) /\ Wired(buffer \o wire, p, next)
    BY <1>1 DEF Streaming, WireInv
  <2>2. Wired(buffer \o wire, p, next)'
    BY <2>1, <1>2, <1>3
  <2>3. Parsed(p)'
    BY <2>1, <1>2, <1>3 DEF Parsed
  <2> QED
    BY <2>2, <2>3, <1>1, <1>2 DEF Streaming, WireInv
<1> QED
  BY <1>1, <1>2, <1>3, <1>4, <1>5, <1>6 DEF WireInv

\* The end of the stream finds everything parsed.
LEMMA AllParsed ==
  ASSUME WireInv, End, outcome = "pending"
  PROVE  Parsed(Len(script)) /\ delivered = Meaningful
<1>1. /\ ScriptOK /\ Streaming /\ writer = "closed" /\ wire = <<>> /\ DeliveredSoFar
      /\ next = Len(script) /\ Boundaries = {}
  BY DEF WireInv, End, Streaming
<1>2. PICK p \in 0 .. next : Parsed(p) /\ Wired(buffer \o wire, p, next)
  BY <1>1 DEF Streaming
<1>3. next \in Nat /\ buffer \in Seq(Tokens) /\ p \in Nat
  <2>1. next \in Nat /\ buffer \in Seq(Tokens)
    BY ShapeParts
  <2> QED
    BY <2>1, <1>2
<1>4. buffer \o wire = buffer
  BY <1>1, <1>3
<1>5. Len(buffer) = 0
  <2>1. ASSUME Len(buffer) >= 1
        PROVE  FALSE
    <3>1. Len(buffer) >= 3 /\ buffer[2] = NL /\ buffer[3] = NL
      BY <2>1, <1>2, <1>3, <1>4, WiredTaken
    <3>2. 2 \in 1 .. (Len(buffer) - 1) /\ 2 + 1 = 3
      BY <3>1, <1>3
    <3> QED
      BY <3>1, <3>2, <1>1 DEF Boundaries
  <2> QED
    BY <2>1, <1>3
<1>6. buffer = <<>>
  BY <1>3, <1>5
<1>7. p = next
  BY <1>2, <1>3, <1>4, <1>6, WiredOut
<1>8. delivered = Meaningful
  <2>1. Len(delivered) = Len(Meaningful)
    BY <1>1, <1>2, <1>7, MeaningfulFits DEF Parsed
  <2>2. \A i \in 1 .. Len(Meaningful) : delivered[i] = Meaningful[i]
    <3>1. delivered \in Seq(Range(script))
      BY ShapeParts
    <3>2. \A i \in 1 .. Len(Meaningful) : Meaningful[i] = script[i] /\ i \in DOMAIN delivered
      BY <3>1, <2>1, <1>1, MeaningfulFits
    <3> QED
      BY <3>2, <1>1 DEF DeliveredSoFar
  <2>3. delivered \in Seq(Range(script)) /\ Meaningful \in Seq(Range(script))
    BY <1>1, ShapeParts, MeaningfulFits
  <2> QED
    BY <2>1, <2>2, <2>3, SeqEqual
<1> QED
  BY <1>1, <1>2, <1>7, <1>8

LEMMA EndInv ==
  ASSUME WireInv, End
  PROVE  WireInv'
<1>1. ScriptOK /\ WireShape /\ DeliveredSoFar /\ outcome # "resolved" /\ ~parsing
  BY DEF WireInv, End
<1>2. /\ conn' = "down"
      /\ UNCHANGED <<who, script, next, beats, writer, wire>>
      /\ UNCHANGED <<buffer, parsing, sawFinish, delivered>>
      /\ outcome' \in {outcome, "resolved", "rejected"}
      /\ outcome' = "resolved" => outcome = "pending"
      /\ outcome' = "pending" => outcome = "pending"
  BY <1>1 DEF End, serverVars, Settle
<1>3. /\ ScriptOK' /\ Tokens' = Tokens /\ Meaningful' = Meaningful /\ Range(script)' = Range(script)
  BY <1>2, ScriptKept
<1>4. WireShape'
  <2>1. outcome' \in {"pending", "resolved", "rejected"}
    BY <1>2, ShapeParts
  <2> QED
    BY <2>1, <1>1, <1>2, <1>3 DEF WireShape
<1>5. DeliveredSoFar' /\ Boundaries' = Boundaries
  BY <1>1, <1>2, <1>3 DEF DeliveredSoFar, Boundaries
<1>6. outcome' = "resolved" => delivered' = Meaningful'
  BY <1>2, <1>3, AllParsed
<1> QED
  BY <1>1, <1>2, <1>3, <1>4, <1>5, <1>6 DEF WireInv

\* The frame the loop takes is the first three tokens of the buffer: a comment, or
\* the payload that is due.
LEMMA FrameFound ==
  ASSUME WireInv, ParseFrame
  PROVE  \E p \in 0 .. next :
           /\ Parsed(p) /\ Len(buffer) >= 3 /\ Min(Boundaries) = 2
           /\ \/ buffer[1] = Colon /\ Wired(SubSeq(buffer, 4, Len(buffer)) \o wire, p, next)
              \/ /\ p + 1 \in 1 .. next /\ buffer[1] = script[p + 1]
                 /\ Wired(SubSeq(buffer, 4, Len(buffer)) \o wire, p + 1, next)
<1>1. ScriptOK /\ Streaming /\ Boundaries # {}
  BY DEF WireInv, ParseFrame
<1>2. PICK p \in 0 .. next : Parsed(p) /\ Wired(buffer \o wire, p, next)
  BY <1>1 DEF Streaming
<1>3. /\ next \in 0 .. Len(script) /\ DOMAIN script = 1 .. Len(script) /\ Len(script) \in Nat
      /\ next \in Nat /\ buffer \in Seq(Tokens) /\ wire \in Seq(Tokens)
  BY ShapeParts
<1> DEFINE s == buffer \o wire
<1>4. /\ s \in Seq(Tokens) /\ Len(s) = Len(buffer) + Len(wire)
      /\ \A i \in 1 .. (Len(buffer) + Len(wire)) :
           s[i] = IF i <= Len(buffer) THEN buffer[i] ELSE wire[i - Len(buffer)]
  BY <1>3, ConcatProperties
<1>5. Len(buffer) \in Nat /\ Len(wire) \in Nat
  BY <1>3
<1>6. PICK b \in 1 .. (Len(buffer) - 1) : buffer[b] = NL /\ buffer[b + 1] = NL
  BY <1>1 DEF Boundaries
<1>7. b \in Nat /\ b >= 1 /\ b + 1 <= Len(buffer)
  BY <1>5, <1>6
<1> HIDE DEF s
<1>8. Len(s) >= 1 /\ s[1] = buffer[1]
  <2>1. 1 \in 1 .. (Len(buffer) + Len(wire)) /\ 1 <= Len(buffer) /\ Len(buffer) + Len(wire) >= 1
    BY <1>5, <1>7
  <2> QED
    BY <2>1, <1>4
<1>9. /\ Len(s) >= 3 /\ s[2] = NL /\ s[3] = NL
      /\ \/ s[1] = Colon /\ Wired(SubSeq(s, 4, Len(s)), p, next)
         \/ /\ p + 1 \in 1 .. next /\ s[1] = script[p + 1]
            /\ Wired(SubSeq(s, 4, Len(s)), p + 1, next)
  BY <1>2, <1>3, <1>4, <1>8, WiredTaken DEF s
<1>10. buffer[1] # NL
  <2>1. ASSUME p + 1 \in 1 .. next
        PROVE  p + 1 \in DOMAIN script
    BY <2>1, <1>3
  <2> QED
    BY <2>1, <1>1, <1>8, <1>9, TokensApart DEF ScriptOK
<1>11. Len(buffer) >= 3
  <2>1. b # 1
    BY <1>6, <1>10
  <2> QED
    BY <2>1, <1>5, <1>7
<1>12. buffer[2] = NL /\ buffer[3] = NL
  <2>1. /\ 2 \in 1 .. (Len(buffer) + Len(wire)) /\ 2 <= Len(buffer)
        /\ 3 \in 1 .. (Len(buffer) + Len(wire)) /\ 3 <= Len(buffer)
    BY <1>5, <1>11
  <2> QED
    BY <2>1, <1>4, <1>9
<1>13. Min(Boundaries) = 2
  <2>1. 2 \in Boundaries
    <3>1. 2 \in 1 .. (Len(buffer) - 1) /\ 2 + 1 = 3
      BY <1>5, <1>11
    <3> QED
      BY <3>1, <1>12 DEF Boundaries
  <2>2. \A i \in Boundaries : i \in Nat /\ 2 <= i
    <3> SUFFICES ASSUME NEW i \in Boundaries
                 PROVE  i \in Nat /\ 2 <= i
      OBVIOUS
    <3>1. i \in 1 .. (Len(buffer) - 1) /\ buffer[i] = NL
      BY DEF Boundaries
    <3>2. i # 1
      BY <3>1, <1>10
    <3> QED
      BY <3>1, <3>2, <1>5
  <2>3. \A i \in Boundaries : (\A j \in Boundaries : i <= j) => i = 2
    <3> SUFFICES ASSUME NEW i \in Boundaries, \A j \in Boundaries : i <= j
                 PROVE  i = 2
      OBVIOUS
    <3>1. i \in Nat /\ 2 <= i /\ i <= 2
      BY <2>1, <2>2
    <3> QED
      BY <3>1
  <2> QED
    BY <2>1, <2>2, <2>3 DEF Min
<1>14. SubSeq(s, 4, Len(s)) = SubSeq(buffer, 4, Len(buffer)) \o wire
  BY <1>3, <1>11, HeadDropped DEF s
<1> QED
  BY <1>2, <1>8, <1>9, <1>11, <1>13, <1>14

LEMMA ParseFrameInv ==
  ASSUME WireInv, ParseFrame
  PROVE  WireInv'
<1> DEFINE line == buffer[1]
<1>1. PICK p \in 0 .. next :
        /\ Parsed(p) /\ Len(buffer) >= 3 /\ Min(Boundaries) = 2
        /\ \/ buffer[1] = Colon /\ Wired(SubSeq(buffer, 4, Len(buffer)) \o wire, p, next)
           \/ /\ p + 1 \in 1 .. next /\ buffer[1] = script[p + 1]
              /\ Wired(SubSeq(buffer, 4, Len(buffer)) \o wire, p + 1, next)
  BY FrameFound
<1>2. ScriptOK /\ WireShape /\ DeliveredSoFar /\ Streaming /\ conn = "stream" /\ parsing
      /\ outcome # "resolved"
  BY DEF WireInv, ParseFrame
<1>3. /\ buffer' = SubSeq(buffer, 4, Len(buffer))
      /\ sawFinish' = (sawFinish \/ line \in {Finish, DONE})
      /\ delivered' = IF line \in {Colon, DONE} THEN delivered ELSE Append(delivered, line)
      /\ IF line = Error /\ Throws(who)
         THEN outcome' = (IF outcome = "pending" THEN "rejected" ELSE outcome) /\ parsing' = FALSE
         ELSE UNCHANGED <<outcome, parsing>>
      /\ UNCHANGED <<who, script, next, beats, writer, wire, conn>>
  <2>1. 2 + 2 = 4
    OBVIOUS
  <2> QED
    BY <1>1, <2>1 DEF ParseFrame, Settle, serverVars
<1>4. /\ ScriptOK' /\ Tokens' = Tokens /\ Meaningful' = Meaningful /\ Range(script)' = Range(script)
      /\ \A q : Wired(buffer \o wire, q, next)' <=> Wired(buffer' \o wire', q, next')
  BY <1>3, ScriptKept
<1>5. /\ next \in 0 .. Len(script) /\ DOMAIN script = 1 .. Len(script) /\ Len(script) \in Nat
      /\ next \in Nat /\ buffer \in Seq(Tokens) /\ wire \in Seq(Tokens) /\ delivered \in Seq(Range(script))
  BY ShapeParts
<1>6. /\ Len(Meaningful) \in Nat /\ Len(Meaningful) <= Len(script) /\ Len(script) <= Len(Meaningful) + 1
      /\ \A k \in 1 .. Len(script) : script[k] = DONE <=> k > Len(Meaningful)
  BY <1>2, MeaningfulFits
<1>7. buffer' \in Seq(Tokens)
  BY <1>1, <1>3, <1>5, HeadDropped
<1>8. p \in Nat
  BY <1>5
<1>9. \E q \in 0 .. next : Parsed(q)' /\ Wired(buffer' \o wire', q, next')
      /\ DeliveredSoFar' /\ delivered' \in Seq(Range(script))
  <2>1. CASE line = Colon
    <3>1. /\ Wired(buffer' \o wire', p, next') /\ delivered' = delivered
          /\ (sawFinish => sawFinish')
      <4>1. ~(p + 1 \in 1 .. next /\ line = script[p + 1])
        <5>1. p + 1 \in 1 .. next => p + 1 \in DOMAIN script
          BY <1>5, <1>8
        <5> QED
          BY <5>1, <2>1, <1>2 DEF ScriptOK
      <4> QED
        BY <4>1, <2>1, <1>1, <1>3
    <3>2. Parsed(p)'
      BY <3>1, <1>1, <1>3, <1>4 DEF Parsed
    <3>3. DeliveredSoFar' /\ delivered' \in Seq(Range(script))
      BY <3>1, <1>2, <1>3, <1>4, <1>5 DEF DeliveredSoFar
    <3> QED
      BY <3>1, <3>2, <3>3
  <2>2. CASE line # Colon
    <3>1. /\ p + 1 \in 1 .. next /\ line = script[p + 1]
          /\ Wired(buffer' \o wire', p + 1, next')
      BY <2>2, <1>1, <1>3
    <3>2. p + 1 \in 1 .. Len(script) /\ p + 1 \in 0 .. next
      BY <3>1, <1>5, <1>8
    <3>3. Len(delivered) = IF p <= Len(Meaningful) THEN p ELSE Len(Meaningful)
      BY <1>1 DEF Parsed
    <3>4. ASSUME NEW k \in 1 .. (p + 1), script[k] \in {Finish, DONE}
          PROVE  sawFinish'
      <4>1. CASE k = p + 1
        BY <3>1, <3>4, <4>1, <1>3
      <4>2. CASE k # p + 1
        <5>1. k \in 1 .. p
          BY <4>2, <1>8
        <5> QED
          BY <5>1, <3>4, <1>1, <1>3 DEF Parsed
      <4> QED
        BY <4>1, <4>2
    <3>5. CASE line = DONE
      <4>1. delivered' = delivered
        BY <3>5, <1>3
      <4>2. p + 1 > Len(Meaningful) /\ p + 1 <= Len(Meaningful) + 1
        <5>1. p + 1 > Len(Meaningful)
          BY <3>1, <3>2, <3>5, <1>6
        <5>2. p + 1 <= Len(script)
          BY <3>2, <1>5, <1>8
        <5>3. \A a, b, c \in Nat : a <= b /\ b <= c + 1 => a <= c + 1
          OBVIOUS
        <5>4. p + 1 \in Nat
          BY <1>8
        <5> QED
          BY <5>1, <5>2, <5>3, <5>4, <1>5, <1>6
      <4>3. p = Len(Meaningful) /\ ~(p + 1 <= Len(Meaningful))
        BY <4>2, <1>6, <1>8
      <4>4. Len(delivered') = IF p + 1 <= Len(Meaningful) THEN p + 1 ELSE Len(Meaningful)
        BY <4>1, <4>3, <3>3
      <4>5. Parsed(p + 1)'
        BY <4>4, <3>2, <3>4, <1>3, <1>4 DEF Parsed
      <4>6. DeliveredSoFar' /\ delivered' \in Seq(Range(script))
        BY <4>1, <1>2, <1>3, <1>4, <1>5 DEF DeliveredSoFar
      <4> QED
        BY <4>5, <4>6, <3>1, <3>2
    <3>6. CASE line # DONE
      <4>1. delivered' = Append(delivered, line)
        BY <2>2, <3>6, <1>3
      <4>2. p + 1 <= Len(Meaningful) /\ p <= Len(Meaningful)
        BY <3>1, <3>2, <3>6, <1>6, <1>8
      <4>3. Len(delivered) = p
        BY <4>2, <3>3
      <4>4. line \in Range(script)
        BY <3>1, <3>2, <1>5 DEF Range
      <4>5. /\ delivered' \in Seq(Range(script)) /\ Len(delivered') = p + 1
            /\ DOMAIN delivered' = 1 .. (p + 1) /\ DOMAIN delivered = 1 .. p
            /\ delivered'[p + 1] = line /\ \A i \in 1 .. p : delivered'[i] = delivered[i]
        BY <4>1, <4>3, <4>4, <1>5
      <4>6. Parsed(p + 1)'
        BY <4>2, <4>5, <3>2, <3>4, <1>3, <1>4 DEF Parsed
      <4>7. \A i \in 1 .. (p + 1) : i \in 1 .. p \/ i = p + 1
        BY <1>8
      <4>8. DeliveredSoFar'
        BY <4>2, <4>5, <4>7, <3>1, <1>2, <1>3, <1>4 DEF DeliveredSoFar
      <4> QED
        BY <4>5, <4>6, <4>8, <3>1, <3>2
    <3> QED
      BY <3>5, <3>6
  <2> QED
    BY <2>1, <2>2
<1>10. Streaming'
  BY <1>2, <1>3, <1>4, <1>9 DEF Streaming
<1>11. WireShape'
  <2>1. buffer' \in Seq(Tokens') /\ delivered' \in Seq(Range(script)') /\ wire' \in Seq(Tokens')
    BY <1>3, <1>4, <1>5, <1>7, <1>9
  <2>2. sawFinish' \in BOOLEAN
    <3>1. sawFinish \in BOOLEAN
      BY <1>2, Zenon DEF WireShape
    <3> QED
      BY <3>1, <1>3, Zenon
  <2>3. parsing' \in BOOLEAN /\ outcome' \in {"pending", "resolved", "rejected"}
    <3>1. CASE line = Error /\ Throws(who)
      BY <3>1, <1>3, ShapeParts
    <3>2. CASE ~(line = Error /\ Throws(who))
      BY <3>2, <1>2, <1>3, ShapeParts
    <3> QED
      BY <3>1, <3>2
  <2> QED
    BY <2>1, <2>2, <2>3, <1>2, <1>3, <1>4, Zenon DEF WireShape
<1>12. outcome' # "resolved" /\ (~parsing' => outcome' # "pending")
  <2>1. CASE line = Error /\ Throws(who)
    BY <2>1, <1>2, <1>3
  <2>2. CASE ~(line = Error /\ Throws(who))
    BY <2>2, <1>2, <1>3
  <2> QED
    BY <2>1, <2>2
<1>13. DeliveredSoFar' /\ conn' = "stream"
  BY <1>2, <1>3, <1>9
<1> QED
  BY <1>4, <1>10, <1>11, <1>12, <1>13 DEF WireInv

------------------------------------------------------------------------------
LEMMA WireStepInv ==
  ASSUME WireInv, [WireNext]_wireVars
  PROVE  WireInv'
<1>1. CASE Answered
  BY <1>1, AcceptedInv, NoAnswerInv DEF Answered
<1>2. CASE ServerSteps
  BY <1>2, PumpInv, WriterClosesInv DEF ServerSteps
<1>3. CASE ClientSteps
  BY <1>3, ReceiveInv, ParseFrameInv, NoFrameLeftInv, EndInv, BrokenInv DEF ClientSteps
<1>4. CASE Beat
  BY <1>4, BeatInv
<1>5. CASE Cut \/ UserAborts
  BY <1>5, BrokenInv
<1>6. CASE UNCHANGED wireVars
  <2>1. /\ UNCHANGED <<who, script, next, beats, writer, wire, conn>>
        /\ UNCHANGED <<buffer, parsing, sawFinish, outcome, delivered>>
    BY <1>6 DEF wireVars
  <2>2. /\ ScriptOK' /\ Tokens' = Tokens /\ Meaningful' = Meaningful /\ Range(script)' = Range(script)
        /\ \A p : Wired(buffer \o wire, p, next)' <=> Wired(buffer' \o wire', p, next')
    BY <2>1, ScriptKept
  <2>3. WireShape'
    BY <2>1, <2>2, Zenon DEF WireInv, WireShape
  <2>4. DeliveredSoFar' /\ Boundaries' = Boundaries /\ (Requested => Requested')
    BY <2>1, <2>2 DEF WireInv, DeliveredSoFar, Boundaries, Requested
  <2>5. Streaming => Streaming'
    <3> SUFFICES ASSUME Streaming PROVE Streaming'
      OBVIOUS
    <3>1. PICK p \in 0 .. next : Parsed(p) /\ Wired(buffer \o wire, p, next)
      BY DEF Streaming
    <3>2. Parsed(p)' /\ Wired(buffer \o wire, p, next)'
      BY <3>1, <2>1, <2>2 DEF Parsed
    <3> QED
      BY <3>2, <2>1 DEF Streaming
  <2> QED
    BY <2>1, <2>2, <2>3, <2>4, <2>5 DEF WireInv
<1> QED
  BY <1>1, <1>2, <1>3, <1>4, <1>5, <1>6 DEF WireNext

\* The invariant says what SseWire promises.
LEMMA WireInvPromises == WireInv => WireTypeOK /\ DeliveredFaithfully
<1> SUFFICES ASSUME WireInv PROVE WireTypeOK /\ DeliveredFaithfully
  OBVIOUS
<1>1. ScriptOK /\ WireShape /\ DeliveredSoFar
  BY DEF WireInv
<1>2. WireTypeOK
  <2>1. Range(wire) \cup Range(buffer) \subseteq Range(script) \cup {NL, Colon}
    <3>1. wire \in Seq(Tokens) /\ buffer \in Seq(Tokens)
      BY ShapeParts
    <3>2. Range(wire) \subseteq Tokens /\ Range(buffer) \subseteq Tokens
      BY <3>1 DEF Range
    <3> QED
      BY <3>2 DEF Tokens
  <2>2. Range(delivered) \subseteq Range(script)
    <3>1. delivered \in Seq(Range(script))
      BY ShapeParts
    <3>2. \A i \in DOMAIN delivered : delivered[i] \in Range(script)
      BY <3>1
    <3>3. Range(delivered) = {delivered[i] : i \in DOMAIN delivered}
      BY DEF Range
    <3> QED
      BY <3>2, <3>3
  <2> QED
    BY <2>1, <2>2, <1>1, Zenon DEF WireTypeOK, WireShape
<1>3. DeliveredFaithfully
  <2> DEFINE n == Len(delivered)
  <2>1. /\ delivered \in Seq(Range(script)) /\ Meaningful \in Seq(Range(script))
        /\ n \in Nat /\ n <= Len(Meaningful) /\ Len(Meaningful) \in Nat
        /\ \A i \in 1 .. n : delivered[i] = Meaningful[i]
    <3>1. delivered \in Seq(Range(script)) /\ Meaningful \in Seq(Range(script))
      BY <1>1, ShapeParts, MeaningfulFits
    <3>2. n \in Nat /\ DOMAIN delivered = 1 .. n /\ Len(Meaningful) \in Nat /\ n <= Len(Meaningful)
      BY <3>1, <1>1 DEF DeliveredSoFar
    <3>3. \A i \in 1 .. n : i \in 1 .. Len(Meaningful)
      BY <3>2
    <3>4. \A i \in 1 .. n : delivered[i] = Meaningful[i]
      BY <3>2, <3>3, <1>1, MeaningfulFits DEF DeliveredSoFar
    <3> QED
      BY <3>1, <3>2, <3>4
  <2>2. SubSeq(delivered, 1, n) = SubSeq(Meaningful, 1, n)
    <3>1. /\ SubSeq(delivered, 1, n) = [i \in 1 .. n |-> delivered[i]]
          /\ SubSeq(Meaningful, 1, n) = [i \in 1 .. n |-> Meaningful[i]]
      BY <2>1
    <3> QED
      BY <3>1, <2>1
  <2>3. IsPrefix(delivered, Meaningful)
    BY <2>1, <2>2 DEF IsPrefix
  <2> QED
    BY <2>3 DEF DeliveredFaithfully, WireInv
<1> QED
  BY <1>2, <1>3

\* A step that rejects has a cause.
LEMMA RejectsForCause ==
  ASSUME WireInv, [WireNext]_wireVars, outcome = "pending", outcome' = "rejected"
  PROVE  \/ conn' = "destroyed" \/ conn \in {"request", "refused", "cut"}
         \/ (Throws(who) /\ Error \in Range(delivered'))
<1>1. CASE Answered
  BY <1>1 DEF Answered, Accepted, Refused, NotReached
<1>2. CASE ServerSteps \/ Beat \/ Cut
  BY <1>2 DEF ServerSteps, Pump, PumpEnds, AbortSeen, Beat, Cut, clientVars
<1>3. CASE Receive \/ NoFrameLeft
  BY <1>3 DEF Receive, NoFrameLeft
<1>4. CASE ParseFrame
  <2>1. buffer[1] = Error /\ Throws(who) /\ delivered' = Append(delivered, Error)
    <3>1. buffer[1] = Error /\ Throws(who)
      BY <1>4 DEF ParseFrame
    <3> QED
      BY <3>1, <1>4, TokensApart DEF ParseFrame
  <2>2. delivered \in Seq(Range(script))
    BY ShapeParts
  <2>3. Len(delivered) + 1 \in DOMAIN delivered' /\ delivered'[Len(delivered) + 1] = Error
    BY <2>1, <2>2
  <2> QED
    BY <2>1, <2>3 DEF Range
<1>5. CASE End
  <2>1. /\ Parsed(Len(script)) /\ delivered = Meaningful /\ ~sawFinish /\ delivered' = delivered
        /\ ScriptOK
    BY <1>5, AllParsed DEF End, Settle, WireInv
  <2>2. Len(script) \in 1 .. Len(script) /\ Len(script) \in Nat
    BY <2>1, ShapeParts DEF ScriptOK
  <2>3. script[Len(script)] = Error /\ who = "recall"
    BY <2>1, <2>2 DEF Parsed, ScriptOK
  <2>4. Meaningful = script
    BY <2>3, TokensApart DEF Meaningful, Last
  <2>5. Error \in Range(delivered')
    <3>1. Len(script) \in DOMAIN script
      BY <2>2, ShapeParts
    <3> QED
      BY <3>1, <2>1, <2>3, <2>4 DEF Range
  <2> QED
    BY <2>3, <2>5 DEF Throws
<1>6. CASE Interrupted
  BY <1>6 DEF Interrupted
<1>7. CASE UserAborts
  BY <1>7 DEF UserAborts
<1>8. CASE UNCHANGED wireVars
  BY <1>8 DEF wireVars
<1> QED
  BY <1>1, <1>2, <1>3, <1>4, <1>5, <1>6, <1>7, <1>8 DEF WireNext, ClientSteps

\* requestSse hands its caller the payloads the server wrote, in order and without a
\* gap, however the stream is cut into chunks, and resolves only when it gave them all.
THEOREM AnswersDelivered == WireSpec => []DeliveredFaithfully
<1>1. WireInit => WireInv
  BY WireInitInv
<1>2. WireInv /\ [WireNext]_wireVars => WireInv'
  BY WireStepInv
<1>3. WireInv => DeliveredFaithfully
  BY WireInvPromises
<1> QED
  BY <1>1, <1>2, <1>3, PTL DEF WireSpec

\* A complete answer is never taken for a broken one.
THEOREM NothingRejectedInVain == WireSpec => RejectedForCause
<1>1. WireInit => WireInv
  BY WireInitInv
<1>2. WireInv /\ [WireNext]_wireVars => WireInv'
  BY WireStepInv
<1>3. WireInv /\ [WireNext]_wireVars =>
        [outcome = "pending" /\ outcome' = "rejected" =>
           conn' = "destroyed" \/ conn \in {"request", "refused", "cut"}
           \/ (Throws(who) /\ Error \in Range(delivered'))]_wireVars
  BY RejectsForCause
<1> QED
  BY <1>1, <1>2, <1>3, PTL DEF WireSpec, RejectedForCause

\* The bus beside the wire: each half keeps its invariant while the other one moves.
LEMMA StreamStepInv ==
  ASSUME BusInv, WireInv, [StreamNext]_streamVars
  PROVE  BusInv' /\ WireInv' /\ [BusNext]_busVars /\ [WireNext]_wireVars
<1>1. [BusNext]_busVars /\ [WireNext]_wireVars
  BY DEF StreamNext, streamVars
<1> QED
  BY <1>1, BusStepInv, WireStepInv

\* The type invariants of the bus and of the wire hold of the two together.
THEOREM StreamsTyped == StreamSpec => []StreamsTypeOK
<1>1. StreamInit => BusInv /\ WireInv
  BY BusInitInv, WireInitInv DEF StreamInit
<1>2. BusInv /\ WireInv /\ [StreamNext]_streamVars => (BusInv /\ WireInv)'
  BY StreamStepInv
<1>3. BusInv /\ WireInv => StreamsTypeOK
  BY WireInvPromises DEF BusInv, StreamsTypeOK
<1> QED
  BY <1>1, <1>2, <1>3, PTL DEF StreamSpec

\* In the composition the run checks, the bus is BusSpec and the wire WireSpec but for its
\* fairness, so both keep their promises side by side.
THEOREM StreamsDeliver ==
  StreamSpec => BusSpec /\ [](EachListenerInOrder /\ DeliveredFaithfully) /\ RejectedForCause
<1>1. StreamInit => BusInit /\ BusInv /\ WireInv
  BY BusInitInv, WireInitInv DEF StreamInit
<1>2. BusInv /\ WireInv /\ [StreamNext]_streamVars =>
        (BusInv /\ WireInv)' /\ [BusNext]_busVars
  BY StreamStepInv
<1>3. BusInv /\ WireInv => EachListenerInOrder /\ DeliveredFaithfully
  BY WireInvPromises, BusInvPromises
<1>4. BusInv /\ WireInv /\ [StreamNext]_streamVars =>
        [outcome = "pending" /\ outcome' = "rejected" =>
           conn' = "destroyed" \/ conn \in {"request", "refused", "cut"}
           \/ (Throws(who) /\ Error \in Range(delivered'))]_wireVars
  BY StreamStepInv, RejectsForCause
<1> QED
  BY <1>1, <1>2, <1>3, <1>4, PTL DEF StreamSpec, BusSpec, RejectedForCause

==============================================================================
