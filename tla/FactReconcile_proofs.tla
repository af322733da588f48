------------------------ MODULE FactReconcile_proofs ------------------------
(***************************************************************************)
(* Proofs about FactReconcile, for any values, any answers of the model    *)
(* and any number of writers, jobs and interruptions.                      *)
(***************************************************************************)
EXTENDS FactReconcile, FiniteSetTheorems, TLAPS

(* Between the two writes the successor is the last row, and current as far
   as its status lets it; what it supersedes is still current.             *)
PairInv ==
    stage = "invalidate" =>
        /\ left # <<>>
        /\ old \in Current /\ old < Len(facts)
        /\ facts[Len(facts)].value = Head(left)
        /\ facts[Len(facts)].status = StatusOf("intel")
        /\ facts[Len(facts)].open

(* supersedes_fact_id names an earlier row. *)
LinksInv == \A j \in 1..Len(facts) : facts[j].supersedes < j

(* What is left is the rest of the answer, and the newest current fact has
   the value handled last.                                                 *)
Handled == Len(answer) - Len(left)
AnswerInv ==
    stage # "idle" =>
        /\ Len(left) <= Len(answer)
        /\ \A i \in 1..Len(left) : left[i] = answer[Handled + i]
        /\ AutoApprove /\ stage = "lookup" /\ Handled > 0 =>
              \E i \in 1..Len(facts) : IsNewest(i) /\ facts[i].value = answer[Handled]

FactInv == TypeOK /\ PairInv /\ LinksInv

-----------------------------------------------------------------------------
(* What the two kinds of writes do to the current facts. *)

\* A row put at the end of the table leaves the other rows as they are.
LEMMA AppendKeeps ==
    ASSUME NEW S, NEW s \in Seq(S), NEW x \in S
    PROVE  /\ Append(s, x) \in Seq(S) /\ Len(Append(s, x)) = Len(s) + 1
           /\ Append(s, x)[Len(s) + 1] = x
           /\ \A i \in 1..Len(s) : Append(s, x)[i] = s[i]
    OBVIOUS

\* The row that insertFact writes, and the current facts after it.
LEMMA Inserted ==
    ASSUME TypeOK, NEW v \in Values, NEW by \in {"intel", "api", "agent"},
           NEW open \in BOOLEAN, NEW s \in Nat, InsertFact(v, by, open, s)
    PROVE  /\ facts' \in Seq(Fact) /\ Len(facts') = Len(facts) + 1
           /\ \A i \in 1..Len(facts) : facts'[i] = facts[i]
           /\ facts'[Len(facts')].value = v /\ facts'[Len(facts')].by = by
           /\ facts'[Len(facts')].status = StatusOf(by)
           /\ facts'[Len(facts')].open = open /\ facts'[Len(facts')].supersedes = s
           /\ Current' = Current \cup
                 (IF StatusOf(by) = "active" /\ open THEN {Len(facts')} ELSE {})
<1> DEFINE row == [value |-> v, by |-> by, status |-> StatusOf(by), open |-> open,
                   supersedes |-> s]
<1>1. row \in Fact  BY DEF Fact, StatusOf
<1>2. facts' = Append(facts, row)  BY DEF InsertFact
<1>3. facts \in Seq(Fact)  BY DEF TypeOK
<1> HIDE DEF row
<1>4. /\ facts' \in Seq(Fact) /\ Len(facts') = Len(facts) + 1
      /\ facts'[Len(facts) + 1] = row
      /\ \A i \in 1..Len(facts) : facts'[i] = facts[i]
  BY <1>1, <1>2, <1>3, AppendKeeps
<1>5. Len(facts) \in Nat  BY <1>3
<1>6. /\ row.value = v /\ row.by = by /\ row.status = StatusOf(by)
      /\ row.open = open /\ row.supersedes = s
  BY DEF row
<1>7. Current' = Current \cup (IF StatusOf(by) = "active" /\ open THEN {Len(facts')} ELSE {})
  BY <1>4, <1>5, <1>6 DEF Current
<1> QED  BY <1>4, <1>5, <1>6, <1>7

\* invalidateFact closes one row and nothing else.
LEMMA Invalidated ==
    ASSUME TypeOK, NEW k \in 1..Len(facts), InvalidateFact(k)
    PROVE  /\ facts' \in Seq(Fact) /\ Len(facts') = Len(facts)
           /\ \A i \in 1..Len(facts) :
                 /\ facts'[i].value = facts[i].value /\ facts'[i].by = facts[i].by
                 /\ facts'[i].status = facts[i].status
                 /\ facts'[i].supersedes = facts[i].supersedes
                 /\ facts'[i].open = (i # k /\ facts[i].open)
           /\ Current' = Current \ {k}
<1>1. facts \in Seq(Fact) /\ Len(facts) \in Nat  BY DEF TypeOK
<1>2. \A i \in 1..Len(facts) : facts[i] \in Fact  BY <1>1
<1>3. facts' = [facts EXCEPT ![k].open = FALSE]  BY DEF InvalidateFact
<1> DEFINE r == [facts[k] EXCEPT !.open = FALSE]
<1>r. r \in Fact /\ facts' = [facts EXCEPT ![k] = r]  BY <1>2, <1>3 DEF Fact
<1>s. /\ r.open = FALSE /\ r.value = facts[k].value /\ r.by = facts[k].by
      /\ r.status = facts[k].status /\ r.supersedes = facts[k].supersedes
  BY <1>2 DEF Fact
<1> HIDE DEF r
<1>4. facts' \in Seq(Fact) /\ Len(facts') = Len(facts)  BY <1>1, <1>r
<1>5. facts'[k] = r /\ \A i \in 1..Len(facts) : i # k => facts'[i] = facts[i]
  BY <1>1, <1>r
<1>6. \A i \in 1..Len(facts) :
         /\ facts'[i].value = facts[i].value /\ facts'[i].by = facts[i].by
         /\ facts'[i].status = facts[i].status
         /\ facts'[i].supersedes = facts[i].supersedes
         /\ facts'[i].open = (i # k /\ facts[i].open)
  <2>1. \A i \in 1..Len(facts) : facts[i].open \in BOOLEAN  BY <1>2 DEF Fact
  <2> QED  BY <1>5, <1>s, <2>1
<1>7. Current' = Current \ {k}
  BY <1>1, <1>4, <1>6 DEF Current
<1> QED  BY <1>4, <1>6, <1>7

\* There are finitely many current facts.
LEMMA CurrentFinite ==
    ASSUME TypeOK
    PROVE  IsFiniteSet(Current) /\ Cardinality(Current) \in Nat
<1>1. Len(facts) \in Nat  BY DEF TypeOK
<1>2. IsFiniteSet(1..Len(facts))  BY <1>1, FS_Interval
<1>3. Current \subseteq 1..Len(facts)  BY DEF Current
<1> QED  BY <1>2, <1>3, FS_Subset, FS_CardinalityType

-----------------------------------------------------------------------------
(* The inductive invariant. *)

LEMMA InitFacts == Init => FactInv
BY DEF Init, FactInv, TypeOK, PairInv, LinksInv, None

\* Every action of the program keeps types, the pair of writes and the links.
LEMMA NextFacts == FactInv /\ [Next]_vars => FactInv'
<1> SUFFICES ASSUME FactInv, [Next]_vars PROVE FactInv'
  OBVIOUS
<1> USE DEF jobVars, bounds
<1>n. None \in Nat /\ None = 0  BY DEF None
<1>t. TypeOK /\ PairInv /\ LinksInv  BY DEF FactInv
<1>f. facts \in Seq(Fact) /\ Len(facts) \in Nat /\ left \in Seq(Values) /\ answer \in Seq(Values)
  BY <1>t DEF TypeOK
<1>1. ASSUME NEW v \in Values, NEW open \in BOOLEAN, NEW s \in 0..Len(facts),
             ApiFact(v, open, s)
      PROVE  FactInv'
  <2>1. InsertFact(v, "api", open, s) /\ stage' = "idle" /\ s \in Nat
    BY <1>1, <1>f DEF ApiFact
  <2>a. /\ facts' \in Seq(Fact) /\ Len(facts') = Len(facts) + 1
        /\ facts'[Len(facts')].supersedes = s
        /\ \A i \in 1..Len(facts) : facts'[i] = facts[i]
    BY <1>t, <2>1, Inserted
  <2>2. TypeOK'  BY <1>t, <1>1, <2>a DEF ApiFact, TypeOK
  <2>3. LinksInv'  BY <1>t, <1>f, <1>n, <2>a DEF LinksInv
  <2> QED  BY <2>1, <2>2, <2>3 DEF FactInv, PairInv
<1>2. ASSUME NEW v \in Values, AgentFact(v)
      PROVE  FactInv'
  <2>1. InsertFact(v, "agent", TRUE, None) /\ stage' = "idle"
    BY <1>2 DEF AgentFact
  <2>a. /\ facts' \in Seq(Fact) /\ Len(facts') = Len(facts) + 1
        /\ facts'[Len(facts')].supersedes = None
        /\ \A i \in 1..Len(facts) : facts'[i] = facts[i]
    BY <1>t, <1>n, <2>1, Inserted
  <2>2. TypeOK'  BY <1>t, <1>2, <2>a DEF AgentFact, TypeOK
  <2>3. LinksInv'  BY <1>t, <1>f, <1>n, <2>a DEF LinksInv
  <2> QED  BY <2>1, <2>2, <2>3 DEF FactInv, PairInv
<1>3. ASSUME NEW e \in Events, NEW s \in Answers, Extracted(e, s)
      PROVE  FactInv'
  <2>1. TypeOK'  BY <1>t, <1>3, FactAssumption DEF Extracted, TypeOK
  <2> QED  BY <1>t, <1>3, <2>1 DEF Extracted, FactInv, PairInv, LinksInv
<1>4. CASE SkipKnown
  <2>1. left # <<>> /\ left' = Tail(left)  BY <1>4 DEF SkipKnown
  <2>2. left' \in Seq(Values)  BY <1>f, <2>1
  <2>3. TypeOK'  BY <1>t, <1>4, <2>2 DEF SkipKnown, TypeOK
  <2> QED  BY <1>t, <1>4, <2>3 DEF SkipKnown, FactInv, PairInv, LinksInv
<1>5. CASE InsertFirst
  <2>1. left # <<>> /\ left' = Tail(left) /\ stage' = "lookup"  BY <1>5 DEF InsertFirst
  <2>2. left' \in Seq(Values) /\ Head(left) \in Values  BY <1>f, <2>1
  <2>3. InsertFact(Head(left), "intel", TRUE, None)  BY <1>5 DEF InsertFirst
  <2>a. /\ facts' \in Seq(Fact) /\ Len(facts') = Len(facts) + 1
        /\ facts'[Len(facts')].supersedes = None
        /\ \A i \in 1..Len(facts) : facts'[i] = facts[i]
    BY <1>t, <1>n, <2>2, <2>3, Inserted
  <2>4. TypeOK'  BY <1>t, <1>5, <2>1, <2>2, <2>a DEF InsertFirst, TypeOK
  <2>5. LinksInv'  BY <1>t, <1>f, <1>n, <2>a DEF LinksInv
  <2> QED  BY <2>1, <2>4, <2>5 DEF FactInv, PairInv
<1>6. CASE InsertSuccessor
  <2>1. PICK i \in 1..Len(facts) :
            IsNewest(i) /\ InsertFact(Head(left), "intel", TRUE, i) /\ old' = i
    BY <1>6 DEF InsertSuccessor
  <2>2. left # <<>> /\ left' = left /\ Head(left) \in Values /\ i \in Nat
    BY <1>6, <1>f DEF InsertSuccessor
  <2>3. /\ facts' \in Seq(Fact) /\ Len(facts') = Len(facts) + 1
        /\ \A j \in 1..Len(facts) : facts'[j] = facts[j]
        /\ facts'[Len(facts')].value = Head(left) /\ facts'[Len(facts')].open
        /\ facts'[Len(facts')].status = StatusOf("intel") /\ facts'[Len(facts')].supersedes = i
        /\ Current \subseteq Current'
    BY <1>t, <2>1, <2>2, Inserted
  <2>4. TypeOK'  BY <1>t, <1>6, <2>1, <2>2, <2>3 DEF InsertSuccessor, TypeOK
  <2>5. LinksInv'  BY <1>t, <1>f, <2>1, <2>3 DEF LinksInv
  <2>6. PairInv'  BY <1>f, <2>1, <2>2, <2>3 DEF PairInv, IsNewest, StatusOf
  <2> QED  BY <2>4, <2>5, <2>6 DEF FactInv
<1>7. CASE InvalidateOld
  <2>1. stage = "invalidate" /\ InvalidateFact(old) /\ left' = Tail(left) /\ stage' = "lookup"
    BY <1>7 DEF InvalidateOld
  <2>2. left # <<>> /\ old \in 1..Len(facts)  BY <1>t, <2>1 DEF PairInv, Current
  <2>3. left' \in Seq(Values)  BY <1>f, <2>1, <2>2
  <2>4. /\ facts' \in Seq(Fact) /\ Len(facts') = Len(facts)
        /\ \A j \in 1..Len(facts) : facts'[j].supersedes = facts[j].supersedes
    BY <1>t, <2>1, <2>2, Invalidated
  <2>5. TypeOK'  BY <1>t, <1>7, <1>n, <2>3, <2>4 DEF InvalidateOld, TypeOK
  <2> QED  BY <1>t, <2>1, <2>4, <2>5 DEF FactInv, PairInv, LinksInv
<1>8. CASE MarkProcessed
  BY <1>t, <1>8 DEF MarkProcessed, FactInv, TypeOK, PairInv, LinksInv
<1>9. CASE Interrupted
  BY <1>t, <1>n, <1>9 DEF Interrupted, FactInv, TypeOK, PairInv, LinksInv
<1>10. CASE UNCHANGED vars
  BY <1>t, <1>10 DEF vars, FactInv, TypeOK, PairInv, LinksInv, Current
<1> QED  BY <1>1, <1>2, <1>3, <1>4, <1>5, <1>6, <1>7, <1>8, <1>9, <1>10 DEF Next

THEOREM FactSafety == Spec => []FactInv
BY InitFacts, NextFacts, PTL DEF Spec

(* The tables and the reconciliation keep their types (fact-store.ts). *)
THEOREM TypeCorrect == Spec => []TypeOK
BY FactSafety, PTL DEF FactInv

-----------------------------------------------------------------------------
(* What a step does to the rows, whichever it is: it adds none, adds one or
   closes one.                                                              *)

Appends(by, open) ==
    /\ Len(facts') = Len(facts) + 1
    /\ \A i \in 1..Len(facts) : facts'[i] = facts[i]
    /\ facts'[Len(facts')].by = by
    /\ Current' = Current \cup
          (IF StatusOf(by) = "active" /\ open THEN {Len(facts')} ELSE {})

\* The rows that ApiFact, AgentFact, InsertFirst and InsertSuccessor add.
LEMMA StepAppends ==
    ASSUME FactInv
    PROVE  /\ \A v \in Values, open \in BOOLEAN, s \in 0..Len(facts) :
                 ApiFact(v, open, s) => Appends("api", open)
           /\ \A v \in Values : AgentFact(v) => Appends("agent", TRUE)
           /\ InsertFirst => /\ Appends("intel", TRUE)
                             /\ facts'[Len(facts')].supersedes = None
                             /\ facts'[Len(facts')].value = Head(left)
           /\ InsertSuccessor => /\ Appends("intel", TRUE)
                                 /\ facts'[Len(facts')].supersedes = old'
                                 /\ facts'[Len(facts')].value = Head(left)
<1>t. TypeOK /\ None \in Nat  BY DEF FactInv, None
<1>f. Len(facts) \in Nat /\ (left # <<>> => Head(left) \in Values)  BY <1>t DEF TypeOK
<1>1. ASSUME NEW v \in Values, NEW open \in BOOLEAN, NEW s \in 0..Len(facts),
             ApiFact(v, open, s)
      PROVE  Appends("api", open)
  <2>1. InsertFact(v, "api", open, s) /\ s \in Nat  BY <1>1, <1>f DEF ApiFact
  <2> QED  BY <1>t, <2>1, Inserted DEF Appends
<1>2. ASSUME NEW v \in Values, AgentFact(v)
      PROVE  Appends("agent", TRUE)
  <2>1. InsertFact(v, "agent", TRUE, None)  BY <1>2 DEF AgentFact
  <2> QED  BY <1>t, <2>1, Inserted DEF Appends
<1>3. ASSUME InsertFirst
      PROVE  /\ Appends("intel", TRUE) /\ facts'[Len(facts')].supersedes = None
             /\ facts'[Len(facts')].value = Head(left)
  <2>1. InsertFact(Head(left), "intel", TRUE, None) /\ left # <<>>
    BY <1>3 DEF InsertFirst
  <2> QED  BY <1>t, <1>f, <2>1, Inserted DEF Appends
<1>4. ASSUME InsertSuccessor
      PROVE  /\ Appends("intel", TRUE) /\ facts'[Len(facts')].supersedes = old'
             /\ facts'[Len(facts')].value = Head(left)
  <2>1. PICK i \in 1..Len(facts) : InsertFact(Head(left), "intel", TRUE, i) /\ old' = i
    BY <1>4 DEF InsertSuccessor
  <2>2. left # <<>> /\ i \in Nat  BY <1>4, <1>f DEF InsertSuccessor
  <2>3. InsertFact(Head(left), "intel", TRUE, old') /\ old' \in Nat  BY <2>1, <2>2
  <2> QED  BY <1>t, <1>f, <2>2, <2>3, Inserted DEF Appends
<1> QED  BY <1>1, <1>2, <1>3, <1>4

\* InvalidateOld closes the one current fact it is about.
LEMMA StepCloses ==
    ASSUME FactInv, InvalidateOld
    PROVE  /\ old \in Current /\ Current' = Current \ {old} /\ Len(facts') = Len(facts)
           /\ \A i \in 1..Len(facts) :
                 /\ facts'[i].value = facts[i].value /\ facts'[i].by = facts[i].by
                 /\ facts'[i].supersedes = facts[i].supersedes
                 /\ facts'[i].open = (i # old /\ facts[i].open)
<1>1. TypeOK /\ InvalidateFact(old)  BY DEF FactInv, InvalidateOld
<1>2. old \in Current /\ old \in 1..Len(facts)
  BY DEF FactInv, PairInv, InvalidateOld, Current
<1> QED  BY <1>1, <1>2, Invalidated

(* The order of the two writes: a key with a current fact never loses all of
   them (reconcileExtractedFacts inserts before it invalidates).             *)
THEOREM KeyKept == Spec => NeverForgotten
<1>1. FactInv /\ [Next]_vars => (AutoApprove /\ Current # {} => Current' # {})
  <2> SUFFICES ASSUME FactInv, [Next]_vars, AutoApprove, Current # {}
               PROVE  Current' # {}
    OBVIOUS
  <2>1. CASE InvalidateOld
    <3>1. old < Len(facts) /\ Len(facts) \in Nat /\ old \in 1..Len(facts)
          /\ facts[Len(facts)].status = StatusOf("intel") /\ facts[Len(facts)].open
      BY <2>1 DEF FactInv, PairInv, InvalidateOld, TypeOK, Current
    <3>2. Len(facts) \in Current \ {old}  BY <3>1 DEF Current, StatusOf
    <3> QED  BY <2>1, <3>2, StepCloses
  <2>2. CASE ~InvalidateOld
    <3>1. Appends("api", TRUE) \/ Appends("api", FALSE) \/ Appends("agent", TRUE)
          \/ Appends("intel", TRUE) \/ facts' = facts
      BY <2>2, StepAppends
         DEF Next, Extracted, SkipKnown, MarkProcessed, Interrupted, vars
    <3>2. CASE facts' = facts  BY <3>2 DEF Current
    <3> QED  BY <3>1, <3>2 DEF Appends
  <2> QED  BY <2>1, <2>2
<1> QED  BY <1>1, FactSafety, PTL DEF Spec, NeverForgotten

(* What intel supersedes is closed once the reconciliation is over, unless it
   was interrupted between its two writes.                                   *)
THEOREM ClosedOnceSuperseded == Spec => []SupersededClosed
<1>1. Init => SupersededClosed  BY DEF Init, SupersededClosed
<1>2. FactInv /\ SupersededClosed /\ [Next]_vars => SupersededClosed'
  <2> SUFFICES ASSUME FactInv, SupersededClosed, [Next]_vars
               PROVE  SupersededClosed'
    OBVIOUS
  <2> USE DEF jobVars, bounds
  <2>f. Len(facts) \in Nat /\ \A j \in 1..Len(facts) : facts[j].supersedes \in Nat
    <3>1. facts \in Seq(Fact)  BY DEF FactInv, TypeOK
    <3>2. \A j \in 1..Len(facts) : facts[j] \in Fact  BY <3>1
    <3> QED  BY <3>1, <3>2 DEF Fact
  <2>l. \A j \in 1..Len(facts) : facts[j].supersedes < j  BY DEF FactInv, LinksInv
  <2>1. ASSUME NEW v \in Values, NEW open \in BOOLEAN, NEW s \in 0..Len(facts),
               ApiFact(v, open, s)
        PROVE  SupersededClosed'
    <3>1. Appends("api", open) /\ stage' = stage /\ old' = old /\ torn' = torn
      BY <2>1, StepAppends DEF ApiFact
    <3> QED  BY <2>f, <2>l, <3>1 DEF Appends, SupersededClosed, None
  <2>2. ASSUME NEW v \in Values, AgentFact(v)
        PROVE  SupersededClosed'
    <3>1. Appends("agent", TRUE) /\ stage' = stage /\ old' = old /\ torn' = torn
      BY <2>2, StepAppends DEF AgentFact
    <3> QED  BY <2>f, <2>l, <3>1 DEF Appends, SupersededClosed, None
  <2>3. CASE InsertFirst
    <3>1. Appends("intel", TRUE) /\ facts'[Len(facts')].supersedes = None
          /\ stage' = stage /\ old' = old /\ torn' = torn
      BY <2>3, StepAppends DEF InsertFirst
    <3> QED  BY <2>f, <2>l, <3>1 DEF Appends, SupersededClosed, None
  <2>4. CASE InsertSuccessor
    <3>1. Appends("intel", TRUE) /\ facts'[Len(facts')].supersedes = old'
          /\ stage = "lookup" /\ stage' = "invalidate" /\ torn' = torn
      BY <2>4, StepAppends DEF InsertSuccessor
    <3> QED  BY <2>f, <2>l, <3>1 DEF Appends, SupersededClosed, None
  <2>5. CASE InvalidateOld
    <3>1. torn' = torn  BY <2>5 DEF InvalidateOld
    <3>2. Len(facts') = Len(facts) /\ old \in 1..Len(facts) /\ stage = "invalidate"
      BY <2>5, StepCloses DEF Current, InvalidateOld
    <3>3. \A i \in 1..Len(facts) :
             /\ facts'[i].by = facts[i].by /\ facts'[i].supersedes = facts[i].supersedes
             /\ facts'[i].open = (i # old /\ facts[i].open)
      BY <2>5, StepCloses
    <3>4. ASSUME NEW j \in 1..Len(facts), facts[j].by = "intel", facts[j].supersedes # None
          PROVE  \/ ~facts'[facts[j].supersedes].open
                 \/ facts[j].supersedes \in torn
      <4> DEFINE k == facts[j].supersedes
      <4>1. k \in 1..Len(facts)  BY <2>f, <2>l, <3>4 DEF None
      <4>2. ~facts[k].open \/ k \in torn \/ k = old  BY <3>4 DEF SupersededClosed
      <4>3. facts'[k].open = (k # old /\ facts[k].open)  BY <3>3, <4>1
      <4> QED  BY <4>2, <4>3
    <3> QED  BY <3>1, <3>2, <3>3, <3>4 DEF SupersededClosed
  <2>6. CASE Interrupted
    BY <2>6 DEF Interrupted, SupersededClosed
  <2>7. ASSUME NEW e \in Events, NEW s \in Answers, Extracted(e, s)
        PROVE  SupersededClosed'
    BY <2>7 DEF Extracted, SupersededClosed
  <2>8. CASE SkipKnown \/ MarkProcessed
    BY <2>8 DEF SkipKnown, MarkProcessed, SupersededClosed
  <2>9. CASE UNCHANGED vars
    BY <2>9 DEF vars, SupersededClosed
  <2> QED  BY <2>1, <2>2, <2>3, <2>4, <2>5, <2>6, <2>7, <2>8, <2>9 DEF Next
<1> QED  BY <1>1, <1>2, FactSafety, PTL DEF Spec

-----------------------------------------------------------------------------
(* How many current facts a key can have. *)

\* One row more makes at most one current fact more.
LEMMA OneMore ==
    ASSUME FactInv, NEW by, NEW open, Appends(by, open)
    PROVE  Cardinality(Current') \in Nat /\ Cardinality(Current') <= Cardinality(Current) + 1
<1>1. IsFiniteSet(Current) /\ Cardinality(Current) \in Nat  BY CurrentFinite DEF FactInv
<1>2. Current' = Current \/ Current' = Current \cup {Len(facts')}  BY DEF Appends
<1>3. CASE Current' = Current \cup {Len(facts')}
  <2>1. Cardinality(Current \cup {Len(facts')})
            = IF Len(facts') \in Current THEN Cardinality(Current) ELSE Cardinality(Current) + 1
    BY <1>1, FS_AddElement
  <2> QED  BY <1>1, <1>3, <2>1
<1> QED  BY <1>1, <1>2, <1>3

(* Intel alone keeps one current fact per key: every other one is owed to a
   write of the API or the agent, or to an interruption.                     *)
THEOREM SurplusBounded == Spec => []SurplusAccounted
<1>1. Init => SurplusAccounted
  <2>1. ASSUME Init PROVE Current = {}  BY <2>1 DEF Init, Current
  <2>2. Cardinality({}) = 0  BY FS_EmptySet
  <2>3. ASSUME Init PROVE Cardinality(Current) = 0  BY <2>1, <2>2, <2>3
  <2>4. ASSUME Init PROVE stage = "idle" /\ writes = 0 /\ interrupts = 0  BY <2>4 DEF Init
  <2> QED  BY <2>3, <2>4 DEF SurplusAccounted
<1>2. FactInv /\ SurplusAccounted /\ [Next]_vars => SurplusAccounted'
  <2> SUFFICES ASSUME FactInv, SurplusAccounted, [Next]_vars
               PROVE  SurplusAccounted'
    OBVIOUS
  <2> USE DEF jobVars, bounds
  <2>f. Cardinality(Current) \in Nat /\ IsFiniteSet(Current)  BY CurrentFinite DEF FactInv
  <2>n. writes \in Nat /\ interrupts \in Nat  BY DEF FactInv, TypeOK
  <2>1. ASSUME NEW v \in Values, NEW open \in BOOLEAN, NEW s \in 0..Len(facts),
               ApiFact(v, open, s)
        PROVE  SurplusAccounted'
    <3>1. Cardinality(Current') \in Nat /\ Cardinality(Current') <= Cardinality(Current) + 1
      BY <2>1, StepAppends, OneMore
    <3> QED  BY <2>1, <2>f, <2>n, <3>1 DEF ApiFact, SurplusAccounted
  <2>2. ASSUME NEW v \in Values, AgentFact(v)
        PROVE  SurplusAccounted'
    <3>1. Cardinality(Current') \in Nat /\ Cardinality(Current') <= Cardinality(Current) + 1
      BY <2>2, StepAppends, OneMore
    <3> QED  BY <2>2, <2>f, <2>n, <3>1 DEF AgentFact, SurplusAccounted
  <2>3. CASE InsertFirst
    <3>1. Cardinality(Current') \in Nat /\ Cardinality(Current') <= Cardinality(Current) + 1
      BY <2>3, StepAppends, OneMore
    <3>2. Cardinality(Current) = 0  BY <2>3, FS_EmptySet DEF InsertFirst
    <3> QED  BY <2>3, <2>f, <2>n, <3>1, <3>2 DEF InsertFirst, SurplusAccounted
  <2>4. CASE InsertSuccessor
    <3>1. Cardinality(Current') \in Nat /\ Cardinality(Current') <= Cardinality(Current) + 1
      BY <2>4, StepAppends, OneMore
    <3> QED  BY <2>4, <2>f, <2>n, <3>1 DEF InsertSuccessor, SurplusAccounted
  <2>5. CASE InvalidateOld
    <3>1. old \in Current /\ Current' = Current \ {old}  BY <2>5, StepCloses
    <3>2. Cardinality(Current') = Cardinality(Current) - 1  BY <2>f, <3>1, FS_RemoveElement
    <3> QED  BY <2>5, <2>f, <2>n, <3>2 DEF InvalidateOld, SurplusAccounted
  <2>6. CASE Interrupted
    <3>1. Current' = Current  BY <2>6 DEF Interrupted, Current
    <3> QED  BY <2>6, <2>f, <2>n, <3>1 DEF Interrupted, SurplusAccounted
  <2>7. ASSUME NEW e \in Events, NEW s \in Answers, Extracted(e, s)
        PROVE  SurplusAccounted'
    <3>1. Current' = Current  BY <2>7 DEF Extracted, Current
    <3> QED  BY <2>7, <2>f, <2>n, <3>1 DEF Extracted, SurplusAccounted
  <2>8. CASE SkipKnown \/ MarkProcessed \/ UNCHANGED vars
    <3>1. Current' = Current  BY <2>8 DEF SkipKnown, MarkProcessed, vars, Current
    <3> QED  BY <2>8, <2>f, <2>n, <3>1 DEF SkipKnown, MarkProcessed, vars, SurplusAccounted
  <2> QED  BY <2>1, <2>2, <2>3, <2>4, <2>5, <2>6, <2>7, <2>8 DEF Next
<1> QED  BY <1>1, <1>2, FactSafety, PTL DEF Spec

-----------------------------------------------------------------------------
(* The answer and the current fact. *)

\* Handling the head of what is left leaves the rest of the answer, and the
\* head is the candidate handled last.
LEMMA HeadHandled ==
    ASSUME FactInv, AnswerInv, stage # "idle", left # <<>>,
           left' = Tail(left), answer' = answer
    PROVE  /\ Len(left') <= Len(answer') /\ Handled' > 0
           /\ \A i \in 1..Len(left') : left'[i] = answer'[Handled' + i]
           /\ answer'[Handled'] = Head(left)
<1>1. left \in Seq(Values) /\ answer \in Seq(Values)  BY DEF FactInv, TypeOK
<1>2. /\ Len(left) \in Nat /\ Len(answer) \in Nat /\ Len(left) > 0
      /\ Len(left') = Len(left) - 1 /\ Head(left) = left[1]
      /\ \A i \in 1..Len(left') : left'[i] = left[i + 1]
  BY <1>1
<1>3. /\ Len(left) <= Len(answer)
      /\ \A i \in 1..Len(left) : left[i] = answer[Len(answer) - Len(left) + i]
  BY DEF AnswerInv, Handled
<1>4. Handled' = Len(answer) - Len(left) + 1  BY <1>2 DEF Handled
<1>5. answer[Len(answer) - Len(left) + 1] = left[1]  BY <1>2, <1>3
<1>6. ASSUME NEW i \in 1..Len(left')
      PROVE  left'[i] = answer'[Handled' + i]
  <2>1. i + 1 \in 1..Len(left) /\ left'[i] = left[i + 1]  BY <1>2
  <2>2. left[i + 1] = answer[Len(answer) - Len(left) + (i + 1)]  BY <1>3, <2>1
  <2>3. Len(answer) - Len(left) + (i + 1) = Handled' + i  BY <1>2, <1>4
  <2> QED  BY <2>1, <2>2, <2>3
<1> QED  BY <1>2, <1>3, <1>4, <1>5, <1>6

\* Every action keeps the account of the answer.
LEMMA NextAnswer == FactInv /\ AnswerInv /\ [Next]_vars => AnswerInv'
<1> SUFFICES ASSUME FactInv, AnswerInv, [Next]_vars PROVE AnswerInv'
  OBVIOUS
<1> USE DEF jobVars, bounds
<1>f. Len(facts) \in Nat  BY DEF FactInv, TypeOK
<1>1. ASSUME NEW e \in Events, NEW s \in Answers, Extracted(e, s)
      PROVE  AnswerInv'
  <2>1. s \in Seq(Values) /\ answer' = s /\ left' = s
    BY <1>1, FactAssumption DEF Extracted
  <2>2. Len(s) \in Nat  BY <2>1
  <2>3. Handled' = 0 /\ Len(left') <= Len(answer')  BY <2>1, <2>2 DEF Handled
  <2>4. \A i \in 1..Len(left') : left'[i] = answer'[Handled' + i]  BY <2>1, <2>2, <2>3
  <2> QED  BY <2>3, <2>4 DEF AnswerInv
<1>2. CASE SkipKnown
  <2>1. left' = Tail(left) /\ answer' = answer /\ left # <<>> /\ stage # "idle"
        /\ facts' = facts
    BY <1>2 DEF SkipKnown
  <2>2. PICK i \in 1..Len(facts) : IsNewest(i) /\ facts[i].value = Head(left)
    BY <1>2 DEF SkipKnown
  <2>3. IsNewest(i)'  BY <2>1, <2>2 DEF IsNewest, Current
  <2> QED  BY <2>1, <2>2, <2>3, HeadHandled DEF AnswerInv
<1>3. CASE InsertFirst
  <2>1. left' = Tail(left) /\ answer' = answer /\ left # <<>> /\ stage # "idle" /\ Current = {}
    BY <1>3 DEF InsertFirst
  <2>2. /\ Appends("intel", TRUE) /\ facts'[Len(facts')].value = Head(left)
    BY <1>3, StepAppends
  <2>3. AutoApprove => Current' = {Len(facts')}  BY <2>1, <2>2 DEF Appends, StatusOf
  <2>4. AutoApprove => IsNewest(Len(facts))' /\ Len(facts') \in 1..Len(facts')
    BY <1>f, <2>2, <2>3 DEF IsNewest, Appends
  <2>5. AutoApprove => \E i \in 1..Len(facts') : IsNewest(i)' /\ facts'[i].value = Head(left)
    BY <2>2, <2>4
  <2> QED  BY <2>1, <2>5, HeadHandled DEF AnswerInv
<1>4. CASE InvalidateOld
  <2>1. left' = Tail(left) /\ answer' = answer /\ stage = "invalidate"
    BY <1>4 DEF InvalidateOld
  <2>2. /\ left # <<>> /\ old < Len(facts) /\ facts[Len(facts)].value = Head(left)
        /\ facts[Len(facts)].status = StatusOf("intel") /\ facts[Len(facts)].open
    BY <2>1 DEF FactInv, PairInv
  <2>3. /\ old \in 1..Len(facts) /\ Current' = Current \ {old} /\ Len(facts') = Len(facts)
        /\ facts'[Len(facts)].value = facts[Len(facts)].value
    BY <1>4, <1>f, <2>2, StepCloses DEF Current
  <2>4. AutoApprove => Len(facts) \in Current \ {old}
    BY <1>f, <2>2, <2>3 DEF Current, StatusOf
  <2>5. \A j \in Current' : j <= Len(facts)  BY <2>3 DEF Current
  <2>6. AutoApprove => IsNewest(Len(facts))' /\ Len(facts) \in 1..Len(facts')
    BY <1>f, <2>3, <2>4, <2>5 DEF IsNewest
  <2>7. AutoApprove => \E i \in 1..Len(facts') : IsNewest(i)' /\ facts'[i].value = Head(left)
    BY <1>f, <2>2, <2>3, <2>6
  <2> QED  BY <2>1, <2>2, <2>7, HeadHandled DEF AnswerInv
<1>5. CASE InsertSuccessor
  BY <1>5 DEF InsertSuccessor, AnswerInv, Handled
<1>6. ASSUME stage' = "idle" PROVE AnswerInv'
  BY <1>6 DEF AnswerInv
<1>7. CASE UNCHANGED vars
  BY <1>7 DEF vars, AnswerInv, Handled, IsNewest, Current
<1> QED
  BY <1>1, <1>2, <1>3, <1>4, <1>5, <1>6, <1>7
     DEF Next, ApiFact, AgentFact, MarkProcessed, Interrupted

(* When the event is marked, what it said last about the key is what a reader
   of the facts finds (reconcileExtractedFacts, then markProcessed).          *)
THEOREM AnswerIsCurrent == Spec => []MarkedIsCurrent
<1>1. Init => AnswerInv  BY DEF Init, AnswerInv
<1>2. FactInv /\ AnswerInv => MarkedIsCurrent
  <2> SUFFICES ASSUME FactInv, AnswerInv, AutoApprove, stage = "lookup",
                      left = <<>>, answer # <<>>
               PROVE  \E i \in 1..Len(facts) :
                          IsNewest(i) /\ facts[i].value = answer[Len(answer)]
    BY DEF MarkedIsCurrent
  <2>1. answer \in Seq(Values)  BY DEF FactInv, TypeOK
  <2>2. Len(left) = 0 /\ Len(answer) \in Nat /\ Len(answer) > 0  BY <2>1
  <2>3. Handled = Len(answer)  BY <2>2 DEF Handled
  <2> QED  BY <2>2, <2>3 DEF AnswerInv
<1> QED  BY <1>1, <1>2, FactSafety, NextAnswer, PTL DEF Spec
=============================================================================
