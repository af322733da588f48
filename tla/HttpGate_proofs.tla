--------------------------- MODULE HttpGate_proofs ---------------------------
(***************************************************************************)
(* Theorems about HttpGate, for any limits, window lengths and requests.   *)
(***************************************************************************)
EXTENDS HttpGate, FiniteSetTheorems, TLAPS

\* What the limiters hold, and that a window never holds more than its limit.
GateInv ==
    /\ passed \subseteq arrived
    /\ \A r \in Requests \ arrived : age[r] = 0
    /\ HitsAccounted
    /\ \A k \in Keys : \A w \in Windows(k) : Cardinality(Retained(k, w)) <= Limit(k, w)

\* What a key's windows may hold.
Bounded(k) ==
    /\ hits[k] \in [Windows(k) -> SUBSET {r \in arrived : keyOf[r] = k}]
    /\ \A w \in Windows(k) : Cardinality(hits[k][w]) <= Limit(k, w)

\* A request takes a place in the lists of the windows that were not full only.
LEMMA ArrivalBounded ==
    ASSUME TypeOK, NEW r \in Requests, NEW k \in Keys, NEW v, Arrives(r, k, v),
           \A w \in Windows(k) : w < v => ~Full(k, w)
    PROVE  /\ arrived' \subseteq Requests /\ age' \in [Requests -> 0..MaxAge]
           /\ keyOf' \in [Requests -> Keys]
           /\ DOMAIN hits' = Keys
           /\ \A j \in Keys : Bounded(j)'
<1> USE RequestsAssumption, WindowsAssumption
<1>1. /\ r \notin arrived /\ arrived' = arrived \cup {r} /\ age' = age
      /\ keyOf' = [keyOf EXCEPT ![r] = k]
      /\ hits' = [hits EXCEPT ![k] = Checked(k, r, v)]
  BY DEF Arrives
<1>2. /\ arrived \subseteq Requests /\ age \in [Requests -> 0..MaxAge]
      /\ keyOf \in [Requests -> Keys] /\ DOMAIN hits = Keys
      /\ \A j \in Keys : Bounded(j)
  BY DEF TypeOK, Bounded
<1>3. \A j \in Keys : {q \in arrived : keyOf[q] = j} \subseteq {q \in arrived' : keyOf'[q] = j}
  BY <1>1, <1>2
<1>4. r \in {q \in arrived' : keyOf'[q] = k}
  BY <1>1, <1>2
<1>5. ASSUME NEW j \in Keys, j # k PROVE Bounded(j)'
  <2>1. hits'[j] = hits[j]
    BY <1>1, <1>2, <1>5
  <2>2. hits[j] \in [Windows(j) -> SUBSET {q \in arrived' : keyOf'[q] = j}]
    BY <1>2, <1>3 DEF Bounded
  <2> QED
    BY <1>2, <2>1, <2>2 DEF Bounded, Windows
<1>6. Bounded(k)'
  <2>1. hits'[k] = Checked(k, r, v)
    BY <1>1, <1>2
  <2>2. ASSUME NEW w \in Windows(k)
        PROVE  /\ Checked(k, r, v)[w] \subseteq {q \in arrived' : keyOf'[q] = k}
               /\ Cardinality(Checked(k, r, v)[w]) <= Limit(k, w)
    <3>1. /\ hits[k][w] \subseteq {q \in arrived : keyOf[q] = k}
          /\ Cardinality(hits[k][w]) <= Limit(k, w) /\ Limit(k, w) \in Nat
      BY <1>2 DEF Bounded, Windows
    <3>2. Retained(k, w) \subseteq hits[k][w]
      BY DEF Retained
    <3>3. IsFiniteSet(hits[k][w])
      BY <1>2, <3>1, FS_Subset
    <3>4. /\ Cardinality(Retained(k, w)) <= Cardinality(hits[k][w])
          /\ IsFiniteSet(Retained(k, w))
      BY <3>2, <3>3, FS_Subset
    <3>5. Cardinality(Retained(k, w)) \in Nat /\ Cardinality(hits[k][w]) \in Nat
      BY <3>3, <3>4, FS_CardinalityType
    <3>6. CASE w < v
      <4>1. Checked(k, r, v)[w] = Retained(k, w) \cup {r}
        BY <3>6 DEF Checked
      <4>2. r \notin Retained(k, w)
        BY <1>1, <3>1, <3>2
      <4>3. Cardinality(Retained(k, w) \cup {r}) = Cardinality(Retained(k, w)) + 1
        BY <3>4, <4>2, FS_AddElement
      <4>4. ~(Cardinality(Retained(k, w)) >= Limit(k, w))
        BY <3>6 DEF Full
      <4>5. Retained(k, w) \cup {r} \subseteq {q \in arrived' : keyOf'[q] = k}
        BY <1>3, <1>4, <3>1, <3>2
      <4>6. Cardinality(Retained(k, w)) + 1 <= Limit(k, w)
        BY <3>1, <3>5, <4>4
      <4> QED
        BY <4>1, <4>3, <4>5, <4>6
    <3>7. CASE ~(w < v)
      <4>1. Checked(k, r, v)[w] = Retained(k, w) \/ Checked(k, r, v)[w] = hits[k][w]
        BY <3>7 DEF Checked
      <4>2. Cardinality(Retained(k, w)) <= Limit(k, w)
        BY <3>1, <3>4, <3>5
      <4>3. hits[k][w] \subseteq {q \in arrived' : keyOf'[q] = k}
        BY <1>3, <3>1
      <4> QED
        BY <3>1, <3>2, <4>1, <4>2, <4>3
    <3> QED
      BY <3>6, <3>7
  <2>3. Checked(k, r, v) = [w \in Windows(k) |-> Checked(k, r, v)[w]]
    BY DEF Checked
  <2>4. Checked(k, r, v) \in [Windows(k) -> SUBSET {q \in arrived' : keyOf'[q] = k}]
    BY <2>2, <2>3
  <2> QED
    BY <2>1, <2>2, <2>4 DEF Bounded, Windows
<1> QED
  BY <1>1, <1>2, <1>5, <1>6

\* Every variable of the gate keeps its type, and no window's list outgrows its limit.
THEOREM TypeCorrect == Spec => []TypeOK
<1> USE RequestsAssumption, MaxAgeAssumption
<1>1. Init => TypeOK
  <2> SUFFICES ASSUME Init PROVE TypeOK
    OBVIOUS
  <2>1. Cardinality({}) = 0
    BY FS_EmptySet
  <2>2. \A k \in Keys : \A w \in Windows(k) : hits[k][w] = {} /\ 0 <= Limit(k, w)
    BY WindowsAssumption DEF Init, Windows
  <2>3. \A k \in Keys : hits[k] \in [Windows(k) -> SUBSET {r \in arrived : keyOf[r] = k}]
    BY DEF Init
  <2> QED
    BY <2>1, <2>2, <2>3 DEF Init, TypeOK, Statuses
<1>2. TypeOK /\ [Next]_vars => TypeOK'
  <2> SUFFICES ASSUME TypeOK, [Next]_vars PROVE TypeOK'
    OBVIOUS
  <2>1. CASE Unauthorized \/ DeclaredTooLarge \/ HealthAnswered
    <3>1. reply' \in Statuses
      BY <2>1 DEF Unauthorized, DeclaredTooLarge, HealthAnswered, Answered, Statuses
    <3>2. UNCHANGED <<arrived, age, keyOf, hits, passed, refuser>>
      BY <2>1 DEF Unauthorized, DeclaredTooLarge, HealthAnswered, Answered
    <3> QED
      BY <3>1, <3>2 DEF TypeOK, Windows
  <2>2. CASE Tick
    <3>1. age' \in [Requests -> 0..MaxAge]
      BY <2>2 DEF Tick, TypeOK
    <3>2. UNCHANGED <<reply, arrived, keyOf, hits, passed, refuser>>
      BY <2>2 DEF Tick
    <3> QED
      BY <3>1, <3>2 DEF TypeOK, Windows
  <2>3. ASSUME NEW r \in Requests, NEW k \in Keys, NEW w \in Windows(k), RateLimited(r, k, w)
        PROVE  TypeOK'
    <3>1. w \in Nat /\ WindowsOf(k) \in Nat
      BY WindowsAssumption DEF Windows
    <3>2. \A u \in Windows(k) : u < w => ~Full(k, u)
      BY <2>3, <3>1 DEF RateLimited, Refuses, Windows
    <3>3. /\ arrived' \subseteq Requests /\ age' \in [Requests -> 0..MaxAge]
          /\ keyOf' \in [Requests -> Keys] /\ DOMAIN hits' = Keys
          /\ \A j \in Keys : Bounded(j)'
      BY <2>3, <3>2, ArrivalBounded DEF RateLimited
    <3>4. reply' \in Statuses /\ passed' \subseteq Requests
      BY <2>3 DEF RateLimited, TypeOK, Statuses
    <3>5. refuser' \in [Requests -> Nat]
      BY <2>3, <3>1 DEF RateLimited, TypeOK
    <3> QED
      BY <3>3, <3>4, <3>5 DEF TypeOK, Bounded
  <2>4. ASSUME NEW r \in Requests, NEW k \in Keys, Handled(r, k) PROVE TypeOK'
    <3>1. PICK body \in Bodies : reply' \in HandlerAnswer(body)
      BY <2>4 DEF Handled
    <3>2. HandlerAnswer(body) \subseteq Statuses
      BY DEF HandlerAnswer, Statuses
    <3>3. /\ arrived' \subseteq Requests /\ age' \in [Requests -> 0..MaxAge]
          /\ keyOf' \in [Requests -> Keys] /\ DOMAIN hits' = Keys
          /\ \A j \in Keys : Bounded(j)'
      BY <2>4, ArrivalBounded DEF Handled, Passes
    <3>4. passed' \subseteq Requests /\ refuser' \in [Requests -> Nat]
      BY <2>4 DEF Handled, TypeOK
    <3> QED
      BY <3>1, <3>2, <3>3, <3>4 DEF TypeOK, Bounded
  <2>5. CASE UNCHANGED vars
    BY <2>5 DEF vars, TypeOK, Windows
  <2> QED
    BY <2>1, <2>2, <2>3, <2>4, <2>5 DEF Next
<1> QED
  BY <1>1, <1>2, PTL DEF Spec

\* A refusal or a pass keeps the accounts and the limits of all windows.
LEMMA ArrivalStep ==
    ASSUME TypeOK, GateInv,
           NEW r \in Requests, NEW k \in Keys, NEW v \in 1..(WindowsOf(k) + 1),
           Arrives(r, k, v),
           \A w \in Windows(k) : w < v => ~Full(k, w),
           passed' \subseteq arrived',
           refuser' \in [Requests -> Nat],
           \A q \in Requests : q # r => (q \in passed' <=> q \in passed) /\ refuser'[q] = refuser[q],
           \A w \in Windows(k) : (r \in passed' \/ w < refuser'[r]) <=> w < v
    PROVE  GateInv'
<1> USE RequestsAssumption, WindowsAssumption, MaxAgeAssumption
<1>0. WindowsOf(k) \in Nat
  OBVIOUS
<1>1. \A q \in Requests \ arrived' : age'[q] = 0
  BY DEF Arrives, GateInv
<1>2. ASSUME NEW j \in Keys, NEW w \in Windows(j), j # k
      PROVE  Retained(j, w)' = Retained(j, w)
  BY <1>2 DEF Arrives, Retained, TypeOK
<1>3. ASSUME NEW w \in Windows(k)
      PROVE  Retained(k, w)' = IF w < v THEN Retained(k, w) \cup {r} ELSE Retained(k, w)
  <2>1. hits'[k][w] = IF w < v THEN Retained(k, w) \cup {r}
                      ELSE IF w = v THEN Retained(k, w) ELSE hits[k][w]
    BY DEF Arrives, Checked, TypeOK
  <2>2. age' = age /\ age[r] = 0 /\ age[r] < Length(k, w)
    BY DEF Arrives, GateInv, Windows
  <2> QED
    BY <2>1, <2>2 DEF Retained
<1>4. HitsAccounted'
  <2> SUFFICES ASSUME NEW j \in Keys, NEW w \in Windows(j)
               PROVE  Retained(j, w)' = {q \in arrived' : keyOf'[q] = j /\ age'[q] < Length(j, w)
                                                          /\ ChargedTo(q, w)'}
    BY DEF HitsAccounted, Windows
  <2>1. Retained(j, w) = {q \in arrived : keyOf[q] = j /\ age[q] < Length(j, w) /\ ChargedTo(q, w)}
    BY DEF GateInv, HitsAccounted
  <2>2. /\ r \notin arrived /\ arrived' = arrived \cup {r} /\ age' = age /\ age[r] = 0
        /\ keyOf' = [keyOf EXCEPT ![r] = k]
        /\ keyOf \in [Requests -> Keys] /\ arrived \subseteq Requests
    BY DEF Arrives, GateInv, TypeOK
  <2>3. \A q \in arrived : q # r /\ keyOf'[q] = keyOf[q] /\ (ChargedTo(q, w)' <=> ChargedTo(q, w))
    BY <2>2 DEF ChargedTo
  <2>4. CASE j # k
    <3>1. ASSUME NEW q
          PROVE  q \in Retained(j, w)' <=>
                     /\ q \in arrived' /\ keyOf'[q] = j
                     /\ age'[q] < Length(j, w) /\ ChargedTo(q, w)'
      <4>1. q \in Retained(j, w)' <=> q \in Retained(j, w)
        BY <1>2, <2>4
      <4>2. keyOf'[r] = k
        BY <2>2
      <4> QED
        BY <2>1, <2>2, <2>3, <2>4, <4>1, <4>2
    <3> QED
      BY <3>1
  <2>5. CASE j = k
    <3>1. ChargedTo(r, w)' <=> w < v
      BY <2>5 DEF ChargedTo
    <3>2. 0 < Length(k, w)
      BY <2>5 DEF Windows
    <3>3. Retained(k, w)' = IF w < v THEN Retained(k, w) \cup {r} ELSE Retained(k, w)
      BY <1>3, <2>5
    <3>4. ASSUME NEW q
          PROVE  q \in Retained(j, w)' <=>
                     /\ q \in arrived' /\ keyOf'[q] = j
                     /\ age'[q] < Length(j, w) /\ ChargedTo(q, w)'
      <4>1. CASE q = r
        <5>1. keyOf'[r] = k /\ age'[r] = 0 /\ r \in arrived' /\ r \notin Retained(k, w)
          BY <2>1, <2>2, <2>5
        <5>2. r \in Retained(k, w)' <=> w < v
          BY <3>3, <5>1
        <5> QED
          BY <2>5, <3>1, <3>2, <4>1, <5>1, <5>2
      <4>2. CASE q # r
        <5>1. q \in Retained(k, w)' <=> q \in Retained(k, w)
          BY <3>3, <4>2
        <5> QED
          BY <2>1, <2>2, <2>3, <2>5, <4>2, <5>1
      <4> QED
        BY <4>1, <4>2
    <3> QED
      BY <3>4
  <2> QED
    BY <2>4, <2>5
<1>5. ASSUME NEW j \in Keys, NEW w \in Windows(j)
      PROVE  Cardinality(Retained(j, w)') <= Limit(j, w)
  <2>1. Cardinality(Retained(j, w)) <= Limit(j, w)
    BY DEF GateInv
  <2>2. CASE j = k /\ w < v
    <3>1. ~(Cardinality(Retained(k, w)) >= Limit(k, w))
      BY <2>2 DEF Full
    <3>2. IsFiniteSet(Retained(k, w))
      <4>1. Retained(k, w) \subseteq Requests
        BY <2>2 DEF Retained, TypeOK
      <4> QED
        BY <4>1, FS_Subset
    <3>3. Cardinality(Retained(k, w)) \in Nat
      BY <3>2, FS_CardinalityType
    <3>4. r \notin Retained(k, w)
      BY <2>2 DEF GateInv, HitsAccounted, Arrives
    <3>5. Cardinality(Retained(k, w) \cup {r}) = Cardinality(Retained(k, w)) + 1
      BY <3>2, <3>4, FS_AddElement
    <3>6. Retained(k, w)' = Retained(k, w) \cup {r}
      BY <1>3, <2>2
    <3>7. Limit(k, w) \in Nat
      BY <2>2 DEF Windows
    <3> QED
      BY <2>2, <3>1, <3>3, <3>5, <3>6, <3>7
  <2>3. CASE ~(j = k /\ w < v)
    BY <1>2, <1>3, <2>1, <2>3
  <2> QED
    BY <2>2, <2>3
<1> QED
  BY <1>1, <1>4, <1>5 DEF GateInv, Windows

LEMMA GateStep == TypeOK /\ TypeOK' /\ GateInv /\ [Next]_vars => GateInv'
<1> USE RequestsAssumption, WindowsAssumption, MaxAgeAssumption
<1> SUFFICES ASSUME TypeOK, TypeOK', GateInv, [Next]_vars PROVE GateInv'
  OBVIOUS
<1>1. CASE Unauthorized \/ DeclaredTooLarge \/ HealthAnswered \/ UNCHANGED vars
  <2>1. UNCHANGED <<arrived, age, keyOf, hits, passed, refuser>>
    BY <1>1 DEF Unauthorized, DeclaredTooLarge, HealthAnswered, Answered, vars
  <2> QED
    BY <2>1 DEF GateInv, HitsAccounted, Retained, ChargedTo, Windows
<1>2. CASE Tick
  <2>1. UNCHANGED <<arrived, keyOf, hits, passed, refuser>>
    BY <1>2 DEF Tick
  <2>2. \A q \in Requests : /\ age[q] \in Nat /\ age'[q] \in Nat
                            /\ age'[q] < MaxAge => age'[q] >= age[q]
                            /\ age'[q] >= age[q]
                            /\ q \notin arrived => age'[q] = age[q]
    BY <1>2 DEF Tick, TypeOK
  <2>3. ASSUME NEW k \in Keys, NEW w \in Windows(k)
        PROVE  /\ Retained(k, w)' = {q \in Retained(k, w) : age'[q] < Length(k, w)}
               /\ Retained(k, w)' \subseteq Retained(k, w)
    <3>1. Length(k, w) \in Nat
      BY DEF Windows
    <3>2. hits[k][w] \subseteq Requests
      BY DEF TypeOK
    <3>3. Retained(k, w)' = {q \in hits[k][w] : age'[q] < Length(k, w)}
      BY <2>1 DEF Retained
    <3>4. ASSUME NEW q \in hits[k][w], age'[q] < Length(k, w) PROVE age[q] < Length(k, w)
      <4>1. age[q] \in Nat /\ age'[q] \in Nat /\ age'[q] >= age[q]
        BY <2>2, <3>2
      <4> QED
        BY <3>1, <3>4, <4>1
    <3> QED
      BY <3>3, <3>4 DEF Retained
  <2>4. HitsAccounted'
    <3> SUFFICES ASSUME NEW k \in Keys, NEW w \in Windows(k)
                 PROVE  Retained(k, w)' = {q \in arrived' : keyOf'[q] = k /\ age'[q] < Length(k, w)
                                                            /\ ChargedTo(q, w)'}
      BY DEF HitsAccounted, Windows
    <3>1. Retained(k, w) = {q \in arrived : keyOf[q] = k /\ age[q] < Length(k, w) /\ ChargedTo(q, w)}
      BY DEF GateInv, HitsAccounted
    <3>2. \A q \in Requests : ChargedTo(q, w)' <=> ChargedTo(q, w)
      BY <2>1 DEF ChargedTo
    <3>3. Length(k, w) \in Nat /\ arrived \subseteq Requests
      BY DEF Windows, TypeOK
    <3>4. ASSUME NEW q
          PROVE  q \in Retained(k, w)' <=>
                     /\ q \in arrived' /\ keyOf'[q] = k
                     /\ age'[q] < Length(k, w) /\ ChargedTo(q, w)'
      <4>1. CASE q \in Retained(k, w)
        BY <2>1, <2>2, <2>3, <3>1, <3>2, <3>3, <4>1
      <4>2. CASE q \notin Retained(k, w)
        <5>1. q \notin Retained(k, w)'
          BY <2>3, <4>2
        <5>2. ASSUME q \in arrived', keyOf'[q] = k, age'[q] < Length(k, w), ChargedTo(q, w)'
              PROVE  FALSE
          <6>1. q \in Requests /\ q \in arrived /\ keyOf[q] = k /\ ChargedTo(q, w)
            BY <2>1, <3>2, <3>3, <5>2
          <6>2. age[q] < Length(k, w)
            BY <2>2, <3>3, <5>2, <6>1
          <6> QED
            BY <3>1, <4>2, <6>1, <6>2
        <5> QED
          BY <5>1, <5>2
      <4> QED
        BY <4>1, <4>2
    <3> QED
      BY <3>4
  <2>5. ASSUME NEW k \in Keys, NEW w \in Windows(k)
        PROVE  Cardinality(Retained(k, w)') <= Limit(k, w)
    <3>1. IsFiniteSet(Retained(k, w))
      <4>1. Retained(k, w) \subseteq Requests
        BY DEF Retained, TypeOK
      <4> QED
        BY <4>1, FS_Subset
    <3>2. /\ Cardinality(Retained(k, w)') <= Cardinality(Retained(k, w))
          /\ IsFiniteSet(Retained(k, w)')
      BY <2>3, <3>1, FS_Subset
    <3>3. Cardinality(Retained(k, w)) \in Nat /\ Cardinality(Retained(k, w)') \in Nat
      BY <3>1, <3>2, FS_CardinalityType
    <3>4. Cardinality(Retained(k, w)) <= Limit(k, w) /\ Limit(k, w) \in Nat
      BY DEF GateInv, Windows
    <3> QED
      BY <3>2, <3>3, <3>4
  <2>6. passed' \subseteq arrived' /\ \A q \in Requests \ arrived' : age'[q] = 0
    BY <2>1, <2>2 DEF GateInv
  <2> QED
    BY <2>4, <2>5, <2>6 DEF GateInv, Windows
<1>3. ASSUME NEW r \in Requests, NEW k \in Keys, NEW w \in Windows(k), RateLimited(r, k, w)
      PROVE  GateInv'
  <2>1. /\ Arrives(r, k, w) /\ passed' = passed /\ r \notin passed
        /\ refuser' = [refuser EXCEPT ![r] = w] /\ arrived' = arrived \cup {r}
    BY <1>3 DEF RateLimited, Arrives, GateInv
  <2>2. w \in 1..(WindowsOf(k) + 1) /\ \A u \in Windows(k) : u < w => ~Full(k, u)
    BY <1>3 DEF RateLimited, Refuses, Windows
  <2>3. refuser'[r] = w /\ \A q \in Requests : q # r => refuser'[q] = refuser[q]
    BY <2>1 DEF TypeOK
  <2>4. passed' \subseteq arrived' /\ refuser' \in [Requests -> Nat]
    BY <2>1 DEF GateInv, TypeOK
  <2> QED
    BY <2>1, <2>2, <2>3, <2>4, ArrivalStep
<1>4. ASSUME NEW r \in Requests, NEW k \in Keys, Handled(r, k) PROVE GateInv'
  <2>1. /\ Arrives(r, k, WindowsOf(k) + 1) /\ passed' = passed \cup {r}
        /\ refuser' = refuser /\ arrived' = arrived \cup {r}
    BY <1>4 DEF Handled, Arrives
  <2>2. /\ WindowsOf(k) + 1 \in 1..(WindowsOf(k) + 1)
        /\ \A u \in Windows(k) : u < WindowsOf(k) + 1 /\ ~Full(k, u)
    BY <1>4 DEF Handled, Passes, Windows
  <2>3. passed' \subseteq arrived' /\ refuser' \in [Requests -> Nat]
    BY <2>1 DEF GateInv, TypeOK
  <2> QED
    BY <2>1, <2>2, <2>3, ArrivalStep
<1> QED
  BY <1>1, <1>2, <1>3, <1>4 DEF Next

LEMMA GateHolds == Spec => []GateInv
<1>1. Init => GateInv
  <2> SUFFICES ASSUME Init PROVE GateInv
    OBVIOUS
  <2>1. ASSUME NEW k \in Keys, NEW w \in Windows(k) PROVE Retained(k, w) = {} /\ 0 <= Limit(k, w)
    BY WindowsAssumption DEF Init, Retained, Windows
  <2>2. Cardinality({}) = 0
    BY FS_EmptySet
  <2> QED
    BY <2>1, <2>2 DEF Init, GateInv, HitsAccounted
<1> QED
  BY <1>1, GateStep, TypeCorrect, PTL DEF Spec

\* Who is charged to which window.
THEOREM ChargesAccounted == Spec => []HitsAccounted
<1>1. GateInv => HitsAccounted
  BY DEF GateInv
<1> QED
  BY <1>1, GateHolds, PTL

\* No window ever lets more requests through than its limit.
THEOREM LimitsKept == Spec => []NeverAboveLimit
<1>1. TypeOK /\ GateInv => NeverAboveLimit
  <2> SUFFICES ASSUME TypeOK, GateInv, NEW k \in Keys, NEW w \in Windows(k)
               PROVE  Cardinality(Within(PassedOn(k), Length(k, w))) <= Limit(k, w)
    BY DEF NeverAboveLimit
  <2>1. Within(PassedOn(k), Length(k, w)) \subseteq Retained(k, w)
    BY DEF Within, PassedOn, GateInv, HitsAccounted, ChargedTo
  <2>2. Retained(k, w) \subseteq Requests
    BY DEF Retained, TypeOK
  <2>3. IsFiniteSet(Retained(k, w))
    BY <2>2, RequestsAssumption, FS_Subset
  <2>4. /\ Cardinality(Within(PassedOn(k), Length(k, w))) <= Cardinality(Retained(k, w))
        /\ IsFiniteSet(Within(PassedOn(k), Length(k, w)))
    BY <2>1, <2>3, FS_Subset
  <2>5. /\ Cardinality(Within(PassedOn(k), Length(k, w))) \in Nat
        /\ Cardinality(Retained(k, w)) \in Nat
    BY <2>3, <2>4, FS_CardinalityType
  <2> QED
    BY <2>4, <2>5, WindowsAssumption DEF GateInv, Windows
<1> QED
  BY <1>1, GateHolds, TypeCorrect, PTL

=============================================================================
