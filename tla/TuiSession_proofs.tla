-------------------------- MODULE TuiSession_proofs --------------------------
(***************************************************************************)
(* Theorems about TuiSession and the chat turns it composes: the type      *)
(* invariant, what a turn leaves in the conversation whatever runs beside  *)
(* it, the form of the history a model is given, and what a calm user of   *)
(* the client has on screen.                                               *)
(***************************************************************************)
EXTENDS TuiSession, SequenceTheorems, TLAPS

Chunks == {"text", "call", "result", "finish", "error", "end", "cut"}
Roles == {"user", "assistant", "tool"}
Statuses == {"complete", "error"}
Parts == {"message", "partial", "call", "result", "text"}
Rows == [role : Roles, status : Statuses, turn : Turns, part : Parts]

-----------------------------------------------------------------------------
(* The invariant of the daemon's side. *)

Shape ==
  /\ exists \subseteq Sessions
  /\ rows \in [Sessions -> Seq(Rows)]
  /\ phase \in [Turns -> {"idle", "refused", "lost", "checked", "appended", "streaming", "done", "gone"}]
  /\ sess \in [Turns -> Sessions \cup {None}]
  /\ answer \in [Turns -> Answers \cup {<<>>}]
  /\ at \in [Turns -> Nat] /\ saved \in [Turns -> Nat]
  /\ out \in [Turns -> Seq(Chunks)]
  /\ crashes \in 0..MaxCrashes

\* A turn's own variables, phase by phase.
Local(t) ==
  /\ phase[t] = "idle" <=> sess[t] = None
  /\ phase[t] \in {"idle", "refused", "lost", "checked", "appended"} => answer[t] = <<>>
  /\ phase[t] \in {"streaming", "done"} => answer[t] \in Answers
  /\ at[t] <= Len(answer[t]) /\ saved[t] <= Len(MessagesOf(t))
  /\ saved[t] > 0 \/ phase[t] = "done" => at[t] = Len(answer[t])
  /\ phase[t] = "done" => saved[t] = Len(MessagesOf(t))

\* A row stands in the session of its turn, and only where there is a session.
Placed(s) ==
  /\ \A i \in DOMAIN rows[s] : sess[rows[s][i].turn] = s
  /\ rows[s] # <<>> => s \in exists

\* The rows of turn t in rs are the first n of w, each once and in this order.
Holds(rs, t, w, n) ==
  /\ \A i \in DOMAIN rs : rs[i].turn = t => \E k \in 1..n : rs[i] = w[k]
  /\ \A k \in 1..n : \E i \in DOMAIN rs : rs[i] = w[k]
  /\ \A i, j \in DOMAIN rs : \A k, m \in 1..n :
       i < j /\ rs[i] = w[k] /\ rs[j] = w[m] => k < m

Failed(t) == IF "error" \in Happened(t) THEN 1 ELSE 0

\* How far a turn has come in what it may leave.
Stored(t) ==
  \E n \in 0..Len(Whole(t)) :
    /\ Holds(rows[sess[t]], t, Whole(t), n)
    /\ phase[t] \in {"refused", "checked"} => n = 0
    /\ phase[t] \in {"appended", "streaming"} => n = 1 + Failed(t) + saved[t]
    /\ phase[t] = "done" /\ crashes = 0 => n = Len(Whole(t))

InCall(t) == phase[t] \in {"appended", "streaming"}
CallRow(t) == Row("assistant", "complete", t, "call")
ResultRow(t) == Row("tool", "complete", t, "result")

\* Its call is stored and the result is next.
HalfStored(t) == phase[t] = "streaming" /\ saved[t] = 1 /\ Len(MessagesOf(t)) > 1

\* Calls and results are neighbours, but for a call that waits for its result
\* at the end of the session.
Unbroken(s) ==
  /\ \A t, u \in Turns : InCall(t) /\ InCall(u) /\ sess[t] = s /\ sess[u] = s => t = u
  /\ \A i \in DOMAIN rows[s] : rows[s][i].part = "call" =>
       /\ rows[s][i] = CallRow(rows[s][i].turn)
       /\ \/ i < Len(rows[s]) /\ rows[s][i + 1] = ResultRow(rows[s][i].turn)
          \/ i = Len(rows[s]) /\ HalfStored(rows[s][i].turn)
  /\ \A i \in DOMAIN rows[s] : rows[s][i].part = "result" =>
       i > 1 /\ rows[s][i] = ResultRow(rows[s][i].turn)
             /\ rows[s][i - 1] = CallRow(rows[s][i].turn)
  /\ \A t \in Turns : HalfStored(t) /\ sess[t] = s =>
       rows[s] # <<>> /\ rows[s][Len(rows[s])] = CallRow(t)

Started(t) == phase[t] # "idle"
ChatInv ==
  /\ Shape
  /\ \A t \in Turns : Local(t)
  /\ \A s \in Sessions : Placed(s)
  /\ \A t \in Turns : Started(t) => Stored(t)
  /\ \A s \in Sessions \ disturbed : Unbroken(s)

-----------------------------------------------------------------------------
(* The invariant of the client. *)

Loads == [n : Nat, why : {"boot", "refresh", "switch"}, turn : TuiTurns \cup {None},
          session : Sessions, got : BOOLEAN, rows : Seq(Rows)]

ClientShape ==
  /\ alive \in BOOLEAN /\ isStreaming \in BOOLEAN /\ calm \in BOOLEAN
  /\ session \in Sessions \cup {None} /\ abortRef \in TuiTurns \cup {None}
  /\ status \in {"initializing", "ready", "streaming", "error"}
  /\ stage \in [TuiTurns -> {"none", "stream", "refresh", "over"}]
  /\ loads \subseteq Loads /\ loaded \in Nat

\* Nothing streams before there is a session.
ClientTurns ==
  /\ \A l \in loads : l.n < loaded
  /\ status \in {"ready", "streaming"} \/ isStreaming => session # None
  /\ \A t \in TuiTurns : stage[t] = "stream" => session # None /\ Started(t)

ClientInv == ClientShape /\ ClientTurns


-----------------------------------------------------------------------------
(* Short sequences. *)

LEMMA ConcatPair ==
  ASSUME NEW S, NEW a \in S, NEW b \in S
  PROVE  <<a>> \o <<b>> = <<a, b>> /\ <<a>> \o <<>> = <<a>>
<1>1. <<a>> \in Seq(S) /\ <<b>> \in Seq(S) /\ <<a, b>> \in Seq(S)
  OBVIOUS
<1> DEFINE l == <<a>> \o <<b>>
<1>2. l \in Seq(S) /\ Len(l) = 2 /\ l[1] = a /\ l[2] = b
  BY <1>1, ConcatProperties
<1> HIDE DEF l
<1>3. l = <<a, b>>
  BY <1>1, <1>2, SeqEqual
<1> QED
  BY <1>1, <1>3, ConcatEmptySeq DEF l

LEMMA Concat1 ==
  ASSUME NEW S, NEW a \in S, NEW b \in S, NEW c \in S
  PROVE  <<a, b>> \o <<c>> = <<a, b, c>>
<1>1. <<a, b>> \in Seq(S) /\ <<c>> \in Seq(S) /\ <<a, b, c>> \in Seq(S)
  OBVIOUS
<1> DEFINE l == <<a, b>> \o <<c>>
<1>2. l \in Seq(S) /\ Len(l) = 3 /\ l[1] = a /\ l[2] = b /\ l[3] = c
  BY <1>1, ConcatProperties
<1> HIDE DEF l
<1>3. l = <<a, b, c>>
  BY <1>1, <1>2, SeqEqual
<1> QED
  BY <1>3 DEF l

LEMMA ConcatTool1 ==
  ASSUME NEW S, NEW a \in S, NEW b \in S, NEW c \in S, NEW d \in S
  PROVE  <<a, b, c>> \o <<d>> = <<a, b, c, d>>
<1>1. <<a, b, c>> \in Seq(S) /\ <<d>> \in Seq(S) /\ <<a, b, c, d>> \in Seq(S)
  OBVIOUS
<1> DEFINE l == <<a, b, c>> \o <<d>>
<1>2. l \in Seq(S) /\ Len(l) = 4 /\ l[1] = a /\ l[2] = b /\ l[3] = c /\ l[4] = d
  BY <1>1, ConcatProperties
<1> HIDE DEF l
<1>3. l = <<a, b, c, d>>
  BY <1>1, <1>2, SeqEqual
<1> QED
  BY <1>3 DEF l

LEMMA ConcatTool2 ==
  ASSUME NEW S, NEW a \in S, NEW b \in S, NEW c \in S, NEW d \in S, NEW e \in S
  PROVE  <<a, b, c>> \o <<d, e>> = <<a, b, c, d, e>>
<1>1. <<a, b, c>> \in Seq(S) /\ <<d, e>> \in Seq(S) /\ <<a, b, c, d, e>> \in Seq(S)
  OBVIOUS
<1> DEFINE l == <<a, b, c>> \o <<d, e>>
<1>2. l \in Seq(S) /\ Len(l) = 5 /\ l[1] = a /\ l[2] = b /\ l[3] = c /\ l[4] = d /\ l[5] = e
  BY <1>1, ConcatProperties
<1> HIDE DEF l
<1>3. l = <<a, b, c, d, e>>
  BY <1>1, <1>2, SeqEqual
<1> QED
  BY <1>3 DEF l

-----------------------------------------------------------------------------
(* What a turn may leave. *)

UserRow(t) == Row("user", "complete", t, "message")
TextRow(t) == Row("assistant", "complete", t, "text")
ErrorRow(t) == Row("assistant", "error", t, IF "text" \in Happened(t) THEN "partial" ELSE "message")

\* The same of any answer a, n events of which were read.
Read(a, n) == {a[i] : i \in 1..n}
FailedAt(a, n) == IF "error" \in Read(a, n) THEN 1 ELSE 0
ErrorRowAt(a, n, t) ==
  Row("assistant", "error", t, IF "text" \in Read(a, n) THEN "partial" ELSE "message")
Messages(a, t) ==
  (IF "call" \in Range(a) THEN <<CallRow(t), ResultRow(t)>> ELSE <<>>)
  \o (IF "finish" \in Range(a) THEN <<TextRow(t)>> ELSE <<>>)
WholeAt(a, n, t) ==
  <<UserRow(t)>> \o (IF FailedAt(a, n) = 1 THEN <<ErrorRowAt(a, n, t)>> ELSE <<>>) \o Messages(a, t)

\* They are the turn's, before a step and after it.
LEMMA OfAnswer ==
  ASSUME NEW t \in Turns
  PROVE  /\ Happened(t) = Read(answer[t], at[t]) /\ Failed(t) = FailedAt(answer[t], at[t])
         /\ ErrorRow(t) = ErrorRowAt(answer[t], at[t], t) /\ MessagesOf(t) = Messages(answer[t], t)
         /\ Whole(t) = WholeAt(answer[t], at[t], t)
<1>1. Happened(t) = Read(answer[t], at[t])
  BY DEF Happened, Read
<1>2. /\ Failed(t) = FailedAt(answer[t], at[t])
      /\ ErrorRow(t) = ErrorRowAt(answer[t], at[t], t) /\ MessagesOf(t) = Messages(answer[t], t)
  BY <1>1 DEF Failed, FailedAt, ErrorRow, ErrorRowAt, MessagesOf, Messages, CallRow, ResultRow, TextRow
<1>3. ("error" \in Happened(t)) <=> (FailedAt(answer[t], at[t]) = 1)
  BY <1>1 DEF FailedAt
<1> QED
  BY <1>1, <1>2, <1>3 DEF Whole, WholeAt, ErrorRow, UserRow

LEMMA OfAnswerNext ==
  ASSUME NEW t \in Turns
  PROVE  /\ Happened(t)' = Read(answer'[t], at'[t]) /\ Failed(t)' = FailedAt(answer'[t], at'[t])
         /\ MessagesOf(t)' = Messages(answer'[t], t)
         /\ Whole(t)' = WholeAt(answer'[t], at'[t], t)
<1>1. Happened(t)' = Read(answer'[t], at'[t])
  BY DEF Happened, Read
<1>2. /\ Failed(t)' = FailedAt(answer'[t], at'[t]) /\ MessagesOf(t)' = Messages(answer'[t], t)
  BY <1>1 DEF Failed, FailedAt, MessagesOf, Messages, CallRow, ResultRow, TextRow
<1>3. ("error" \in Happened(t))' <=> (FailedAt(answer'[t], at'[t]) = 1)
  BY <1>1 DEF FailedAt
<1>4. ("text" \in Happened(t))' <=> ("text" \in Read(answer'[t], at'[t]))
  BY <1>1
<1> QED
  BY <1>1, <1>2, <1>3, <1>4 DEF Whole, WholeAt, ErrorRowAt, UserRow

LEMMA RowsOfTurn ==
  ASSUME NEW t \in Turns, NEW a, NEW n
  PROVE  /\ {UserRow(t), CallRow(t), ResultRow(t), TextRow(t), ErrorRowAt(a, n, t)} \subseteq Rows
         /\ \A r \in {UserRow(t), CallRow(t), ResultRow(t), TextRow(t), ErrorRowAt(a, n, t)} : r.turn = t
         /\ UserRow(t).role = "user" /\ UserRow(t).part = "message"
         /\ ErrorRowAt(a, n, t).role = "assistant" /\ ErrorRowAt(a, n, t).status = "error"
         /\ ErrorRowAt(a, n, t).part \notin {"call", "result"}
         /\ CallRow(t).role = "assistant" /\ CallRow(t).status = "complete" /\ CallRow(t).part = "call"
         /\ ResultRow(t).role = "tool" /\ ResultRow(t).status = "complete" /\ ResultRow(t).part = "result"
         /\ TextRow(t).role = "assistant" /\ TextRow(t).status = "complete" /\ TextRow(t).part = "text"
  BY DEF UserRow, CallRow, ResultRow, TextRow, ErrorRowAt, Row, Rows, Roles, Statuses, Parts

\* The four answers, event by event.
LEMMA AnswerCases ==
  ASSUME NEW a \in Answers
  PROVE  \/ a = <<"text", "text", "finish">>
         \/ a = <<"text", "call", "result", "text", "finish">>
         \/ a = <<"error">>
         \/ a = <<"text", "call", "result", "error">>
<1> DEFINE S == {"text", "call", "result", "finish", "error"}
<1>0. "text" \in S /\ "call" \in S /\ "result" \in S /\ "finish" \in S /\ "error" \in S
  OBVIOUS
<1> HIDE DEF S
<1>1. Tool \o <<"text", "finish">> = <<"text", "call", "result", "text", "finish">>
  BY <1>0, ConcatTool2 DEF Tool
<1>2. Tool \o <<"error">> = <<"text", "call", "result", "error">>
  BY <1>0, ConcatTool1 DEF Tool
<1> QED
  BY <1>1, <1>2 DEF Answers

\* The messages of an answer: a call and its result, then the text.
LEMMA MessageCases ==
  ASSUME NEW t \in Turns, NEW a
  PROVE  \/ Messages(a, t) = <<>>
         \/ Messages(a, t) = <<TextRow(t)>>
         \/ Messages(a, t) = <<CallRow(t), ResultRow(t)>>
         \/ Messages(a, t) = <<CallRow(t), ResultRow(t), TextRow(t)>>
<1>1. <<>> \o <<>> = <<>> /\ <<>> \o <<TextRow(t)>> = <<TextRow(t)>>
  OBVIOUS
<1>2. <<CallRow(t), ResultRow(t)>> \o <<>> = <<CallRow(t), ResultRow(t)>>
  OBVIOUS
<1>3. <<CallRow(t), ResultRow(t)>> \o <<TextRow(t)>> = <<CallRow(t), ResultRow(t), TextRow(t)>>
  BY Concat1, RowsOfTurn
<1> QED
  BY <1>1, <1>2, <1>3 DEF Messages

\* An answer without any event has no messages.
LEMMA NothingAnswered ==
  ASSUME NEW t \in Turns
  PROVE  Messages(<<>>, t) = <<>>
<1>1. Range(<<>>) = {}
  BY DEF Range
<1>2. <<>> \o <<>> = <<>>
  OBVIOUS
<1> QED
  BY <1>1, <1>2 DEF Messages

\* An error is the last event of its answer.
LEMMA ErrorComesLast ==
  ASSUME NEW a \in Answers, NEW i \in 1..Len(a), a[i] = "error"
  PROVE  i = Len(a)
<1>1. CASE a = <<"text", "text", "finish">>
  BY <1>1
<1>2. CASE a = <<"text", "call", "result", "text", "finish">>
  BY <1>2
<1>3. CASE a = <<"error">>
  BY <1>3
<1>4. CASE a = <<"text", "call", "result", "error">>
  BY <1>4
<1> QED
  BY <1>1, <1>2, <1>3, <1>4, AnswerCases

\* Rows that a turn can be told by.
Distinct(w) == \A k, m \in DOMAIN w : w[k] = w[m] => k = m
RowsOf(t, w) == w \in Seq(Rows) /\ (\A k \in DOMAIN w : w[k].turn = t) /\ Distinct(w)

\* What a turn may leave: its user message, its error, its messages, all distinct.
LEMMA WholeParts ==
  ASSUME NEW t \in Turns, NEW a, NEW read
  PROVE  LET M == Messages(a, t)  W == WholeAt(a, read, t)  failed == FailedAt(a, read) IN
         /\ RowsOf(t, W)
         /\ failed \in {0, 1}
         /\ M \in Seq(Rows) /\ Len(M) \in 0..3
         /\ Len(W) = 1 + failed + Len(M)
         /\ W[1] = UserRow(t)
         /\ failed = 1 => W[2] = ErrorRowAt(a, read, t)
         /\ \A k \in 1..Len(M) : W[1 + failed + k] = M[k]
         /\ Len(M) = 1 => M[1] = TextRow(t)
         /\ Len(M) > 1 => M[1] = CallRow(t) /\ M[2] = ResultRow(t)
         /\ Len(M) > 2 => M[3] = TextRow(t)
<1> DEFINE U == UserRow(t)  E == ErrorRowAt(a, read, t)  C == CallRow(t)  R == ResultRow(t)
           T == TextRow(t)  M == Messages(a, t)  W == WholeAt(a, read, t)
           failed == FailedAt(a, read)
<1>0. failed \in {0, 1}
  BY DEF FailedAt
<1>1. W = <<U>> \o (IF failed = 1 THEN <<E>> ELSE <<>>) \o M
  BY DEF WholeAt
<1>2. /\ {U, E, C, R, T} \subseteq Rows /\ \A r \in {U, E, C, R, T} : r.turn = t
      /\ U # E /\ U # C /\ U # R /\ U # T /\ E # C /\ E # R /\ E # T /\ C # R /\ C # T /\ R # T
  BY RowsOfTurn
<1>3. M = <<>> \/ M = <<T>> \/ M = <<C, R>> \/ M = <<C, R, T>>
  BY MessageCases
<1> DEFINE P == IF failed = 1 THEN <<U, E>> ELSE <<U>>
<1> HIDE DEF U, E, C, R, T, M, W, failed
<1>4. W = P \o M
  <2>1. <<U>> \o <<E>> = <<U, E>> /\ <<U>> \o <<>> = <<U>>
    BY <1>2, ConcatPair
  <2> QED
    BY <1>1, <2>1
<1>5. P \in Seq(Rows) /\ Len(P) = 1 + failed /\ P[1] = U /\ (failed = 1 => P[2] = E)
  BY <1>0, <1>2
<1>6. /\ M \in Seq(Rows) /\ Len(M) \in 0..3
      /\ Len(M) = 1 => M[1] = T
      /\ Len(M) = 2 => M[1] = C /\ M[2] = R
      /\ Len(M) = 3 => M[1] = C /\ M[2] = R /\ M[3] = T
  <2>1. CASE M = <<>>
    BY <2>1
  <2>2. CASE M = <<T>>
    BY <1>2, <2>2
  <2>3. CASE M = <<C, R>>
    BY <1>2, <2>3
  <2>4. CASE M = <<C, R, T>>
    BY <1>2, <2>4
  <2> QED
    BY <1>3, <2>1, <2>2, <2>3, <2>4
<1> HIDE DEF P
<1>7. /\ W \in Seq(Rows) /\ Len(W) = Len(P) + Len(M)
      /\ \A k \in 1..Len(W) : W[k] = IF k <= Len(P) THEN P[k] ELSE M[k - Len(P)]
  <2>1. P \in Seq(Rows) /\ M \in Seq(Rows)
    BY <1>5, <1>6
  <2>2. /\ P \o M \in Seq(Rows) /\ Len(P \o M) = Len(P) + Len(M)
        /\ \A k \in 1..Len(P) + Len(M) : (P \o M)[k] = IF k <= Len(P) THEN P[k] ELSE M[k - Len(P)]
    BY <2>1, ConcatProperties
  <2> QED
    BY <1>4, <2>2
<1> DEFINE p == Len(P)  n == Len(M)
<1>n. p \in Nat /\ n \in Nat /\ p = 1 + failed /\ Len(W) = p + n
  BY <1>0, <1>5, <1>6, <1>7
<1> HIDE DEF p, n
<1>k. /\ \A k \in 1..p : k \in 1..Len(W) /\ W[k] = P[k]
      /\ \A k \in 1..n : p + k \in 1..Len(W) /\ W[p + k] = M[k]
      /\ \A k \in 1..Len(W) : k \in 1..p \/ (k - p \in 1..n /\ k = p + (k - p))
  <2>1. /\ \A k \in 1..p : k \in 1..(p + n) /\ k <= p
        /\ \A k \in 1..n : p + k \in 1..(p + n) /\ ~(p + k <= p) /\ (p + k) - p = k
        /\ \A k \in 1..(p + n) : k \in 1..p \/ (k - p \in 1..n /\ k = p + (k - p))
    BY <1>n
  <2> QED
    BY <2>1, <1>n, <1>7 DEF p, n
<1>8. /\ Len(W) = 1 + failed + Len(M) /\ W[1] = U
      /\ failed = 1 => W[2] = E
      /\ \A k \in 1..Len(M) : W[1 + failed + k] = M[k]
  BY <1>0, <1>5, <1>n, <1>k DEF n
<1>p. \A k \in 1..p : P[k] \in {U, E}
  <2>1. \A k \in 1..p : k = 1 \/ (k = 2 /\ failed = 1)
    BY <1>0, <1>n
  <2> QED
    BY <1>5, <2>1
<1>m. \A k \in 1..n : M[k] \in {C, R, T}
  BY <1>6 DEF n
<1>9. \A k \in 1..Len(W) : W[k].turn = t
  <2>1. ASSUME NEW k \in 1..Len(W) PROVE W[k] \in {U, E, C, R, T}
    BY <1>k, <1>p, <1>m
  <2> QED
    BY <1>2, <2>1
<1>10. Distinct(W)
  <2>1. \A k, m \in 1..p : P[k] = P[m] => k = m
    BY <1>0, <1>2, <1>5, <1>n
  <2>2. \A k, m \in 1..n : M[k] = M[m] => k = m
    BY <1>2, <1>6 DEF n
  <2>3. \A k \in 1..p, m \in 1..n : P[k] # M[m]
    BY <1>2, <1>p, <1>m
  <2>4. SUFFICES ASSUME NEW k \in 1..Len(W), NEW m \in 1..Len(W), W[k] = W[m]
                 PROVE  k = m
    BY <1>7 DEF Distinct
  <2>5. CASE k \in 1..p /\ m \in 1..p
    BY <1>k, <2>1, <2>4, <2>5
  <2>6. CASE k - p \in 1..n /\ k = p + (k - p) /\ m - p \in 1..n /\ m = p + (m - p)
    <3>1. M[k - p] = M[m - p]
      BY <1>k, <2>4, <2>6
    <3>2. k - p = m - p
      BY <2>2, <2>6, <3>1
    <3> QED
      BY <2>6, <3>2
  <2>7. CASE k \in 1..p /\ m - p \in 1..n /\ m = p + (m - p)
    BY <1>k, <2>3, <2>4, <2>7
  <2>8. CASE m \in 1..p /\ k - p \in 1..n /\ k = p + (k - p)
    BY <1>k, <2>3, <2>4, <2>8
  <2> QED
    BY <1>k, <2>5, <2>6, <2>7, <2>8
<1>11. RowsOf(t, W)
  BY <1>7, <1>9, <1>10 DEF RowsOf
<1> QED
  BY <1>0, <1>6, <1>8, <1>11 DEF U, E, C, R, T, M, W, failed


\* They depend on the answer and on how much of it was read.
LEMMA SameAnswer ==
  ASSUME NEW t \in Turns, answer'[t] = answer[t], at'[t] = at[t]
  PROVE  /\ Happened(t)' = Happened(t) /\ Failed(t)' = Failed(t)
         /\ MessagesOf(t)' = MessagesOf(t) /\ Whole(t)' = Whole(t)
<1>1. Happened(t)' = Happened(t)
  BY DEF Happened
<1>2. MessagesOf(t)' = MessagesOf(t)
  BY DEF MessagesOf
<1> QED
  BY <1>1, <1>2 DEF Failed, Whole

-----------------------------------------------------------------------------
(* The first n rows of w: what an insert does to them. *)

LEMMA AppendRow ==
  ASSUME NEW rs \in Seq(Rows), NEW r \in Rows
  PROVE  /\ Append(rs, r) \in Seq(Rows) /\ Append(rs, r) # <<>>
         /\ DOMAIN rs = 1..Len(rs) /\ Len(rs) \in Nat
         /\ Len(Append(rs, r)) = Len(rs) + 1
         /\ DOMAIN Append(rs, r) = 1..(Len(rs) + 1)
         /\ \A i \in 1..Len(rs) : Append(rs, r)[i] = rs[i]
         /\ Append(rs, r)[Len(rs) + 1] = r
  BY AppendProperties, LenProperties

\* A row is an old one or the last one.
LEMMA OldOrLast ==
  ASSUME NEW n \in Nat, NEW i \in 1..(n + 1)
  PROVE  i \in 1..n \/ i = n + 1
  OBVIOUS

LEMMA HoldsOther ==
  ASSUME NEW t \in Turns, NEW w, RowsOf(t, w), NEW n \in 0..Len(w),
         NEW rs \in Seq(Rows), NEW r \in Rows, r.turn # t, Holds(rs, t, w, n)
  PROVE  Holds(Append(rs, r), t, w, n)
<1> DEFINE as == Append(rs, r)
<1>1. /\ DOMAIN rs = 1..Len(rs) /\ Len(rs) \in Nat /\ DOMAIN as = 1..(Len(rs) + 1)
      /\ \A i \in 1..Len(rs) : as[i] = rs[i]
      /\ as[Len(rs) + 1] = r
  BY AppendRow
<1>2. \A k \in 1..n : k \in DOMAIN w /\ w[k].turn = t
  BY DEF RowsOf
<1> HIDE DEF as
<1>3. \A i \in DOMAIN as : as[i].turn = t => i \in DOMAIN rs /\ as[i] = rs[i]
  BY <1>1, OldOrLast
<1>4. \A i \in DOMAIN rs : i \in DOMAIN as /\ as[i] = rs[i]
  <2>1. 1..Len(rs) \subseteq 1..(Len(rs) + 1)
    BY <1>1
  <2> QED
    BY <1>1, <2>1
<1>5. \A i \in DOMAIN as : as[i].turn = t => \E k \in 1..n : as[i] = w[k]
  BY <1>3 DEF Holds
<1>6. \A k \in 1..n : \E i \in DOMAIN as : as[i] = w[k]
  BY <1>4 DEF Holds
<1>7. ASSUME NEW i \in DOMAIN as, NEW j \in DOMAIN as, NEW k \in 1..n, NEW m \in 1..n,
             i < j, as[i] = w[k], as[j] = w[m]
      PROVE  k < m
  <2>1. i \in DOMAIN rs /\ rs[i] = w[k] /\ j \in DOMAIN rs /\ rs[j] = w[m]
    BY <1>2, <1>3, <1>7
  <2> QED
    BY <2>1, <1>7 DEF Holds
<1> QED
  BY <1>5, <1>6, <1>7 DEF Holds, as

LEMMA HoldsNext ==
  ASSUME NEW t \in Turns, NEW w, RowsOf(t, w), NEW n \in Nat, n + 1 <= Len(w),
         NEW rs \in Seq(Rows), Holds(rs, t, w, n)
  PROVE  Holds(Append(rs, w[n + 1]), t, w, n + 1)
<1> DEFINE r == w[n + 1]  as == Append(rs, r)
<1>0. /\ DOMAIN w = 1..Len(w) /\ n + 1 \in DOMAIN w /\ r \in Rows /\ 1..n \subseteq DOMAIN w
      /\ Distinct(w) /\ \A k \in DOMAIN w : w[k].turn = t
  BY DEF RowsOf
<1>1. /\ DOMAIN rs = 1..Len(rs) /\ Len(rs) \in Nat /\ DOMAIN as = 1..(Len(rs) + 1)
      /\ \A i \in 1..Len(rs) : as[i] = rs[i]
      /\ as[Len(rs) + 1] = r
  BY <1>0, AppendRow
<1>2. \A k \in 1..n : w[k] # r
  BY <1>0 DEF Distinct
<1>3. \A k \in 1..(n + 1) : k \in 1..n \/ k = n + 1
  BY OldOrLast
<1>4. 1..n \subseteq 1..(n + 1) /\ n + 1 \in 1..(n + 1)
  OBVIOUS
<1> HIDE DEF as
<1>5. \A i \in DOMAIN as : as[i].turn = t => \E k \in 1..(n + 1) : as[i] = w[k]
  <2>1. ASSUME NEW i \in 1..Len(rs), as[i].turn = t PROVE \E k \in 1..(n + 1) : as[i] = w[k]
    BY <1>1, <1>4, <2>1 DEF Holds
  <2> QED
    BY <1>1, <1>4, <2>1, OldOrLast
<1>6. \A k \in 1..(n + 1) : \E i \in DOMAIN as : as[i] = w[k]
  <2>1. Len(rs) + 1 \in DOMAIN as /\ \A i \in DOMAIN rs : i \in DOMAIN as
    BY <1>1
  <2>2. ASSUME NEW k \in 1..n PROVE \E i \in DOMAIN as : as[i] = w[k]
    BY <1>1, <2>1 DEF Holds
  <2> QED
    BY <1>1, <1>3, <2>1, <2>2
<1>7. \A i \in 1..Len(rs) : as[i] # r
  <2>1. SUFFICES ASSUME NEW i \in 1..Len(rs), as[i] = r PROVE FALSE
    OBVIOUS
  <2>2. rs[i] = r /\ rs[i].turn = t
    BY <1>0, <1>1, <2>1
  <2>3. PICK k \in 1..n : rs[i] = w[k]
    BY <1>1, <2>2 DEF Holds
  <2> QED
    BY <1>2, <2>2, <2>3
<1>8. ASSUME NEW i \in DOMAIN as, NEW j \in DOMAIN as, NEW k \in 1..(n + 1), NEW m \in 1..(n + 1),
             i < j, as[i] = w[k], as[j] = w[m]
      PROVE  k < m
  <2>1. i \in 1..Len(rs)
    BY <1>1, <1>8
  <2>2. k \in 1..n
    BY <1>3, <1>7, <1>8, <2>1
  <2>3. CASE j \in 1..Len(rs)
    <3>1. m \in 1..n
      BY <1>3, <1>7, <1>8, <2>3
    <3> QED
      BY <1>1, <1>8, <2>1, <2>2, <2>3, <3>1 DEF Holds
  <2>4. CASE j = Len(rs) + 1
    <3>1. w[m] = r
      BY <1>1, <1>8, <2>4
    <3>2. m = n + 1
      BY <1>2, <1>3, <3>1
    <3> QED
      BY <2>2, <3>2
  <2> QED
    BY <1>1, <2>3, <2>4, OldOrLast
<1> QED
  BY <1>5, <1>6, <1>8 DEF Holds, as

\* Only the first n rows of w matter.
LEMMA HoldsSame ==
  ASSUME NEW rs, NEW t, NEW w, NEW v, NEW n, \A k \in 1..n : w[k] = v[k], Holds(rs, t, w, n)
  PROVE  Holds(rs, t, v, n)
  BY DEF Holds

LEMMA HoldsNone ==
  ASSUME NEW rs, NEW t, NEW w, \A i \in DOMAIN rs : rs[i].turn # t
  PROVE  Holds(rs, t, w, 0)
<1>1. 1..0 = {}
  OBVIOUS
<1> QED
  BY <1>1 DEF Holds


-----------------------------------------------------------------------------
(* What a step of turn t leaves as it is. *)

LEMMA TurnTypes ==
  ASSUME Shape, NEW t \in Turns
  PROVE  /\ phase[t] \in {"idle", "refused", "lost", "checked", "appended", "streaming", "done", "gone"}
         /\ sess[t] \in Sessions \cup {None} /\ answer[t] \in Answers \cup {<<>>}
         /\ at[t] \in Nat /\ saved[t] \in Nat /\ out[t] \in Seq(Chunks)
  BY DEF Shape

LEMMA SessionTypes ==
  ASSUME Shape, NEW s \in Sessions
  PROVE  /\ rows[s] \in Seq(Rows) /\ Len(rows[s]) \in Nat /\ DOMAIN rows[s] = 1..Len(rows[s])
         /\ \A i \in DOMAIN rows[s] : rows[s][i] \in Rows /\ rows[s][i].turn \in Turns
<1>1. rows[s] \in Seq(Rows)
  BY DEF Shape
<1>2. Len(rows[s]) \in Nat /\ DOMAIN rows[s] = 1..Len(rows[s])
  BY <1>1, LenProperties
<1>3. \A i \in DOMAIN rows[s] : rows[s][i] \in Rows
  BY <1>1, <1>2, ElementOfSeq
<1> QED
  BY <1>1, <1>2, <1>3 DEF Rows

\* A turn that began is a turn of a session.
LEMMA SessionOf ==
  ASSUME Shape, NEW t \in Turns, Local(t), Started(t)
  PROVE  sess[t] \in Sessions
  BY TurnTypes DEF Local, Started

SameTurn(u) == /\ phase'[u] = phase[u] /\ sess'[u] = sess[u] /\ answer'[u] = answer[u]
               /\ at'[u] = at[u] /\ saved'[u] = saved[u]

SameAnswerOf(u) == answer'[u] = answer[u] /\ at'[u] = at[u]

LEMMA LocalKept ==
  ASSUME NEW u \in Turns, SameTurn(u), Local(u)
  PROVE  Local(u)'
<1>1. MessagesOf(u)' = MessagesOf(u)
  BY SameAnswer DEF SameTurn
<1> QED
  BY <1>1 DEF SameTurn, Local

\* Other turns may write into its session.
LEMMA StoredKept ==
  ASSUME Shape, NEW u \in Turns, Local(u), SameTurn(u), Stored(u), Started(u), crashes' = crashes,
         \/ rows'[sess[u]] = rows[sess[u]]
         \/ \E r \in Rows : r.turn # u /\ rows'[sess[u]] = Append(rows[sess[u]], r)
  PROVE  Stored(u)'
<1>1. Whole(u)' = Whole(u) /\ Failed(u)' = Failed(u)
  BY SameAnswer DEF SameTurn
<1>2. RowsOf(u, Whole(u))
  BY WholeParts, OfAnswer
<1>3. rows[sess[u]] \in Seq(Rows)
  BY SessionOf, SessionTypes
<1>4. PICK n \in 0..Len(Whole(u)) :
           /\ Holds(rows[sess[u]], u, Whole(u), n)
           /\ phase[u] \in {"refused", "checked"} => n = 0
           /\ phase[u] \in {"appended", "streaming"} => n = 1 + Failed(u) + saved[u]
           /\ phase[u] = "done" /\ crashes = 0 => n = Len(Whole(u))
  BY DEF Stored
<1>5. Holds(rows'[sess[u]], u, Whole(u), n)
  <2>1. CASE rows'[sess[u]] = rows[sess[u]]
    BY <1>4, <2>1
  <2>2. ASSUME NEW r \in Rows, r.turn # u, rows'[sess[u]] = Append(rows[sess[u]], r)
        PROVE  Holds(rows'[sess[u]], u, Whole(u), n)
    BY <1>2, <1>3, <1>4, <2>2, HoldsOther
  <2> QED
    BY <2>1, <2>2
<1>6. phase'[u] = phase[u] /\ sess'[u] = sess[u] /\ saved'[u] = saved[u]
  BY DEF SameTurn
<1> HIDE DEF SameTurn
<1>7. (Stored(u))' = \E k \in 0..Len(Whole(u)) :
           /\ Holds(rows'[sess[u]], u, Whole(u), k)
           /\ phase[u] \in {"refused", "checked"} => k = 0
           /\ phase[u] \in {"appended", "streaming"} => k = 1 + Failed(u) + saved[u]
           /\ phase[u] = "done" /\ crashes = 0 => k = Len(Whole(u))
  BY <1>1, <1>6 DEF Stored, Holds
<1> QED
  BY <1>4, <1>5, <1>7

LEMMA PlacedKept ==
  ASSUME NEW s \in Sessions, Placed(s), rows'[s] = rows[s], exists \subseteq exists',
         \A i \in DOMAIN rows[s] : sess'[rows[s][i].turn] = s
  PROVE  Placed(s)'
  BY DEF Placed

LEMMA PlacedAppend ==
  ASSUME Shape, NEW s \in Sessions, Placed(s), NEW r \in Rows, rows'[s] = Append(rows[s], r),
         sess[r.turn] = s, s \in exists', sess' = sess
  PROVE  Placed(s)'
<1>1. rows[s] \in Seq(Rows)
  BY SessionTypes
<1>2. /\ DOMAIN rows'[s] = 1..(Len(rows[s]) + 1) /\ Len(rows[s]) \in Nat
      /\ \A i \in 1..Len(rows[s]) : rows'[s][i] = rows[s][i] /\ i \in DOMAIN rows[s]
      /\ rows'[s][Len(rows[s]) + 1] = r
  BY <1>1, AppendRow
<1>3. \A i \in DOMAIN rows'[s] : sess[rows'[s][i].turn] = s
  BY <1>2, OldOrLast DEF Placed
<1> QED
  BY <1>3 DEF Placed

\* Nothing changes in session s: its rows, nor which of its calls are half stored.
SameCalls(s) ==
  \A u \in Turns : sess[u] = s \/ sess'[u] = s =>
    /\ InCall(u)' => InCall(u) /\ sess[u] = s
    /\ HalfStored(u)' <=> HalfStored(u)

LEMMA UnbrokenKept ==
  ASSUME Shape, NEW s \in Sessions, Unbroken(s), Placed(s), rows'[s] = rows[s], SameCalls(s)
  PROVE  Unbroken(s)'
<1>0. \A i \in DOMAIN rows[s] : rows[s][i].turn \in Turns /\ sess[rows[s][i].turn] = s
  BY SessionTypes DEF Placed
<1>1. \A i \in DOMAIN rows[s] : HalfStored(rows[s][i].turn)' <=> HalfStored(rows[s][i].turn)
  BY <1>0 DEF SameCalls
<1>2. \A t \in Turns : HalfStored(t)' /\ sess'[t] = s => HalfStored(t) /\ sess[t] = s
  BY DEF SameCalls, HalfStored, InCall
<1>3. \A t, u \in Turns : InCall(t)' /\ InCall(u)' /\ sess'[t] = s /\ sess'[u] = s => t = u
  BY DEF SameCalls, Unbroken
<1> QED
  BY <1>1, <1>2, <1>3 DEF Unbroken, CallRow, ResultRow, Row


\* Turn t, alone in its session, stores a row: one of no call, its call, or the
\* result of the call it stored last.
NextRow(t, r) ==
  \/ r.part \notin {"call", "result"} /\ ~HalfStored(t) /\ ~HalfStored(t)'
  \/ r = CallRow(t) /\ ~HalfStored(t) /\ HalfStored(t)'
  \/ r = ResultRow(t) /\ HalfStored(t) /\ ~HalfStored(t)'

LEMMA UnbrokenAppend ==
  ASSUME Shape, NEW t \in Turns, NEW s \in Sessions, sess[t] = s, sess' = sess,
         Unbroken(s), Placed(s), NEW r \in Rows, r.turn = t, rows'[s] = Append(rows[s], r),
         \A u \in Turns \ {t} : SameTurn(u) /\ ~(InCall(u) /\ sess[u] = s),
         NextRow(t, r)
  PROVE  Unbroken(s)'
<1> DEFINE rs == rows[s]  n == Len(rs)  as == rows'[s]
<1>1. /\ n \in Nat /\ DOMAIN rs = 1..n /\ DOMAIN as = 1..(n + 1) /\ Len(as) = n + 1 /\ as # <<>>
      /\ \A i \in 1..n : as[i] = rs[i]
      /\ as[n + 1] = r
  <2>1. rs \in Seq(Rows)
    BY SessionTypes
  <2> QED
    BY <2>1, AppendRow
<1>2. \A i \in 1..n : rs[i].turn \in Turns /\ sess[rs[i].turn] = s
  BY <1>1, SessionTypes DEF Placed
<1>3. \A u \in Turns \ {t} : sess[u] = s => ~InCall(u) /\ ~InCall(u)' /\ ~HalfStored(u) /\ ~HalfStored(u)'
  BY DEF SameTurn, InCall, HalfStored
<1>4. \A u \in Turns : HalfStored(u) /\ sess[u] = s => u = t /\ rs # <<>> /\ rs[n] = CallRow(u)
  BY <1>3 DEF Unbroken
<1>5. \A i \in 1..n : rs[i].part = "call" =>
        /\ rs[i] = CallRow(rs[i].turn)
        /\ \/ i < n /\ rs[i + 1] = ResultRow(rs[i].turn)
           \/ i = n /\ rs[i].turn = t /\ HalfStored(t)
  BY <1>1, <1>2, <1>4 DEF Unbroken
<1>6. \A i \in 1..n : rs[i].part = "result" =>
        i > 1 /\ rs[i] = ResultRow(rs[i].turn) /\ rs[i - 1] = CallRow(rs[i].turn)
  BY <1>1 DEF Unbroken
<1>7. /\ CallRow(t).part = "call" /\ ResultRow(t).part = "result"
      /\ CallRow(t).turn = t /\ ResultRow(t).turn = t
  BY RowsOfTurn
<1>8. HalfStored(t) => n \in 1..n /\ rs[n] = CallRow(t)
  <2>1. HalfStored(t) => rs # <<>> /\ rs[n] = CallRow(t)
    BY <1>4
  <2>2. rs # <<>> => n \in 1..n
    <3>1. rs \in Seq(Rows)
      BY SessionTypes
    <3>2. rs # <<>> => n # 0
      BY <3>1, EmptySeq
    <3> QED
      BY <1>1, <3>2
  <2> QED
    BY <2>1, <2>2
<1> HIDE DEF rs, n, as
<1>9. \A i \in 1..n : i \in 1..(n + 1) /\ i # n + 1 /\ i < n + 1 /\ (i < n => i + 1 \in 1..n)
  BY <1>1
\* The calls.
<1>10. \A i \in 1..(n + 1) : as[i].part = "call" =>
         /\ as[i] = CallRow(as[i].turn)
         /\ \/ i < n + 1 /\ as[i + 1] = ResultRow(as[i].turn)
            \/ i = n + 1 /\ HalfStored(t)' /\ as[i].turn = t
  <2>1. ASSUME NEW i \in 1..n, as[i].part = "call"
        PROVE  as[i] = CallRow(as[i].turn) /\ i < n + 1 /\ as[i + 1] = ResultRow(as[i].turn)
    <3>1. as[i] = rs[i] /\ i < n + 1 /\ as[i] = CallRow(as[i].turn)
      BY <1>1, <1>5, <1>9, <2>1
    <3>2. CASE i < n /\ rs[i + 1] = ResultRow(rs[i].turn)
      BY <1>1, <1>9, <3>1, <3>2
    <3>3. CASE i = n /\ rs[i].turn = t /\ HalfStored(t)
      BY <1>1, <1>7, <3>1, <3>3 DEF NextRow
    <3> QED
      BY <1>5, <2>1, <3>1, <3>2, <3>3
  <2>2. r.part = "call" => r = CallRow(r.turn) /\ HalfStored(t)' /\ r.turn = t
    BY <1>7 DEF NextRow
  <2> QED
    BY <1>1, <2>1, <2>2, OldOrLast
\* The results.
<1>11. \A i \in 1..(n + 1) : as[i].part = "result" =>
         i > 1 /\ as[i] = ResultRow(as[i].turn) /\ as[i - 1] = CallRow(as[i].turn)
  <2>1. ASSUME NEW i \in 1..n, as[i].part = "result"
        PROVE  i > 1 /\ as[i] = ResultRow(as[i].turn) /\ as[i - 1] = CallRow(as[i].turn)
    <3>1. i > 1 /\ rs[i] = ResultRow(rs[i].turn) /\ rs[i - 1] = CallRow(rs[i].turn) /\ as[i] = rs[i]
      BY <1>1, <1>6, <2>1
    <3>2. i - 1 \in 1..n
      BY <1>1, <3>1
    <3> QED
      BY <1>1, <3>1, <3>2
  <2>2. r.part = "result" => n + 1 > 1 /\ r = ResultRow(r.turn) /\ as[(n + 1) - 1] = CallRow(r.turn)
    <3>1. SUFFICES ASSUME r.part = "result" PROVE n + 1 > 1 /\ r = ResultRow(t) /\ as[(n + 1) - 1] = CallRow(t)
      OBVIOUS
    <3>2. r = ResultRow(t) /\ HalfStored(t)
      BY <1>7, <3>1 DEF NextRow
    <3>3. n \in 1..n /\ as[n] = CallRow(t)
      BY <1>1, <1>8, <3>2
    <3>4. (n + 1) - 1 = n /\ n + 1 > 1
      BY <1>1, <3>3
    <3> QED
      BY <3>2, <3>3, <3>4
  <2> QED
    BY <1>1, <2>1, <2>2, OldOrLast
<1>12. HalfStored(t)' => as[n + 1] = CallRow(t)
  BY <1>1, <1>7 DEF NextRow
<1>13. \A u \in Turns : sess[u] = s /\ (InCall(u)' \/ HalfStored(u)') => u = t
  BY <1>3
<1>14. rows'[s] = as /\ Len(rows'[s]) = n + 1 /\ DOMAIN rows'[s] = 1..(n + 1) /\ rows'[s] # <<>>
  BY <1>1 DEF as
<1>15. \A u, v \in Turns : InCall(u)' /\ InCall(v)' /\ sess'[u] = s /\ sess'[v] = s => u = v
  BY <1>13
<1>16. \A i \in DOMAIN rows'[s] : rows'[s][i].part = "call" =>
         /\ rows'[s][i] = CallRow(rows'[s][i].turn)
         /\ \/ i < Len(rows'[s]) /\ rows'[s][i + 1] = ResultRow(rows'[s][i].turn)
            \/ i = Len(rows'[s]) /\ HalfStored(rows[s][i].turn)'
  BY <1>10, <1>14
<1>17. \A i \in DOMAIN rows'[s] : rows'[s][i].part = "result" =>
         i > 1 /\ rows'[s][i] = ResultRow(rows'[s][i].turn)
               /\ rows'[s][i - 1] = CallRow(rows'[s][i].turn)
  BY <1>11, <1>14
<1>18. \A u \in Turns : HalfStored(u)' /\ sess'[u] = s =>
         rows'[s] # <<>> /\ rows'[s][Len(rows'[s])] = CallRow(u)
  BY <1>12, <1>13, <1>14
<1> QED
  BY <1>15, <1>16, <1>17, <1>18 DEF Unbroken, CallRow, ResultRow, Row


-----------------------------------------------------------------------------
(* The steps of the daemon and of its turns. *)

\* Every other turn goes on as it was.
Alone(t) == \A u \in Turns \ {t} : SameTurn(u)

\* A step of turn t that stores row r in its session.
Writes(t, r) ==
  /\ Started(t) /\ r \in Rows /\ r.turn = t /\ AppendMessage(t, r)
  /\ Alone(t) /\ UNCHANGED <<sess, crashes>>
  /\ exists \subseteq exists' /\ sess[t] \in exists'

LEMMA WriteKeeps ==
  ASSUME ChatInv, NEW t \in Turns, NEW r, Writes(t, r)
  PROVE  /\ rows' \in [Sessions -> Seq(Rows)]
         /\ sess[t] \in Sessions /\ rows'[sess[t]] = Append(rows[sess[t]], r)
         /\ \A s \in Sessions \ {sess[t]} : rows'[s] = rows[s]
         /\ \A u \in Turns \ {t} : Local(u)' /\ (Started(u)' => Stored(u)')
         /\ \A s \in Sessions : Placed(s)'
<1>1. Shape /\ (\A u \in Turns : Local(u)) /\ (\A s \in Sessions : Placed(s))
      /\ (\A u \in Turns : Started(u) => Stored(u))
  BY DEF ChatInv
<1>2. sess[t] \in Sessions
  BY <1>1, SessionOf DEF Writes
<1>3. rows \in [Sessions -> Seq(Rows)] /\ rows' = [rows EXCEPT ![sess[t]] = Append(@, r)]
  BY <1>1 DEF Writes, AppendMessage, Shape
<1>4. Append(rows[sess[t]], r) \in Seq(Rows)
  BY <1>1, <1>2, SessionTypes, AppendRow DEF Writes
<1>5. /\ rows' \in [Sessions -> Seq(Rows)] /\ rows'[sess[t]] = Append(rows[sess[t]], r)
      /\ \A s \in Sessions \ {sess[t]} : rows'[s] = rows[s]
  BY <1>2, <1>3, <1>4
<1>6. r \in Rows /\ r.turn = t /\ Alone(t) /\ sess' = sess /\ crashes' = crashes
      /\ exists \subseteq exists' /\ sess[t] \in exists'
  BY DEF Writes
<1>7. ASSUME NEW u \in Turns \ {t} PROVE Local(u)' /\ (Started(u)' => Stored(u)')
  <2>1. SameTurn(u) /\ Local(u)
    BY <1>1, <1>6 DEF Alone
  <2>2. Local(u)'
    BY <2>1, LocalKept
  <2>3. ASSUME Started(u)' PROVE Stored(u)'
    <3>1. Started(u)
      BY <2>1, <2>3 DEF Started, SameTurn
    <3>2. sess[u] \in Sessions /\ Stored(u)
      BY <1>1, <2>1, <3>1, SessionOf
    <3>3. rows'[sess[u]] = rows[sess[u]] \/ \E q \in Rows : q.turn # u /\ rows'[sess[u]] = Append(rows[sess[u]], q)
      BY <1>5, <1>6, <3>2
    <3> QED
      BY <1>1, <1>6, <2>1, <3>1, <3>2, <3>3, StoredKept
  <2> QED
    BY <2>2, <2>3
<1>8. ASSUME NEW s \in Sessions PROVE Placed(s)'
  <2>1. CASE s = sess[t]
    BY <1>1, <1>5, <1>6, <2>1, PlacedAppend
  <2>2. CASE s # sess[t]
    <3>1. rows'[s] = rows[s] /\ \A i \in DOMAIN rows[s] : sess'[rows[s][i].turn] = s
      BY <1>1, <1>5, <1>6, <2>2 DEF Placed
    <3> QED
      BY <1>1, <1>6, <3>1, PlacedKept
  <2> QED
    BY <2>1, <2>2
<1> QED
  BY <1>2, <1>5, <1>7, <1>8

\* A step of turn t that stores nothing.
Reads(t) == Alone(t) /\ UNCHANGED <<exists, rows, sess, crashes>>

LEMMA ReadKeeps ==
  ASSUME ChatInv, NEW t \in Turns, Reads(t)
  PROVE  /\ \A u \in Turns \ {t} : Local(u)' /\ (Started(u)' => Stored(u)')
         /\ \A s \in Sessions : Placed(s)'
<1>1. Shape /\ (\A u \in Turns : Local(u)) /\ (\A s \in Sessions : Placed(s))
      /\ (\A u \in Turns : Started(u) => Stored(u))
      /\ Alone(t) /\ rows' = rows /\ sess' = sess /\ crashes' = crashes /\ exists' = exists
  BY DEF ChatInv, Reads
<1>2. ASSUME NEW u \in Turns \ {t} PROVE Local(u)' /\ (Started(u)' => Stored(u)')
  <2>1. SameTurn(u) /\ Local(u)
    BY <1>1 DEF Alone
  <2>2. Started(u)' => Started(u)
    BY <2>1 DEF Started, SameTurn
  <2> QED
    BY <1>1, <2>1, <2>2, LocalKept, StoredKept
<1>3. ASSUME NEW s \in Sessions PROVE Placed(s)'
  BY <1>1 DEF Placed
<1> QED
  BY <1>2, <1>3

\* Sessions a turn does not write in, and those it is not the caller in.
LEMMA OtherSessionsKept ==
  ASSUME ChatInv, NEW t \in Turns, Alone(t), sess' = sess,
         NEW s \in Sessions \ disturbed, rows'[s] = rows[s],
         \/ sess[t] # s
         \/ (InCall(t)' => InCall(t)) /\ (HalfStored(t)' <=> HalfStored(t))
  PROVE  Unbroken(s)'
<1>1. Shape /\ Unbroken(s) /\ Placed(s)
  BY DEF ChatInv
<1>2. \A u \in Turns \ {t} : (InCall(u)' <=> InCall(u)) /\ (HalfStored(u)' <=> HalfStored(u))
  <2>1. ASSUME NEW u \in Turns \ {t} PROVE (InCall(u)' <=> InCall(u)) /\ (HalfStored(u)' <=> HalfStored(u))
    <3>1. SameTurn(u)
      BY DEF Alone
    <3>2. MessagesOf(u)' = MessagesOf(u)
      BY <3>1, SameAnswer DEF SameTurn
    <3> QED
      BY <3>1, <3>2 DEF SameTurn, InCall, HalfStored
  <2> QED
    BY <2>1
<1>3. SameCalls(s)
  BY <1>2 DEF SameCalls
<1> QED
  BY <1>1, <1>3, UnbrokenKept


\* Nothing of an answer was read before the model is called.
LEMMA NothingRead ==
  ASSUME Shape, NEW t \in Turns, Local(t), answer[t] = <<>>
  PROVE  at[t] = 0 /\ saved[t] = 0 /\ Happened(t) = {} /\ Failed(t) = 0 /\ MessagesOf(t) = <<>>
<1>1. MessagesOf(t) = <<>>
  BY NothingAnswered, OfAnswer
<1>2. at[t] = 0 /\ saved[t] = 0
  BY <1>1, TurnTypes DEF Local
<1>3. Happened(t) = {}
  BY <1>2 DEF Happened
<1> QED
  BY <1>1, <1>2, <1>3 DEF Failed

LEMMA InvParts ==
  ASSUME ChatInv, NEW t \in Turns
  PROVE  Shape /\ Local(t) /\ (Started(t) => Stored(t))
  BY DEF ChatInv

\* What is left to show of a step of turn t.
LEMMA StepInv ==
  ASSUME NEW t \in Turns, Shape', Local(t)', Stored(t)',
         \A u \in Turns \ {t} : Local(u)' /\ (Started(u)' => Stored(u)'),
         \A s \in Sessions : Placed(s)',
         \A s \in Sessions \ disturbed' : Unbroken(s)'
  PROVE  ChatInv'
  BY DEF ChatInv

LEMMA AnswerLength ==
  ASSUME NEW a \in Answers \cup {<<>>}
  PROVE  Len(a) \in Nat
  BY AnswerCases

\* A row more of what turn t may leave.
LEMMA HoldsStep ==
  ASSUME Shape, NEW t \in Turns, sess[t] \in Sessions, NEW w, RowsOf(t, w), NEW n \in Nat,
         n + 1 <= Len(w), Holds(rows[sess[t]], t, w, n), NEW m, m = n + 1,
         rows'[sess[t]] = Append(rows[sess[t]], w[m])
  PROVE  Holds(rows'[sess[t]], t, w, m)
<1>1. rows[sess[t]] \in Seq(Rows)
  BY SessionTypes
<1> QED
  BY <1>1, HoldsNext

LEMMA StoredNow ==
  ASSUME NEW t \in Turns, NEW n \in 0..Len(Whole(t)'), Holds(rows'[sess'[t]], t, Whole(t)', n),
         phase'[t] \in {"refused", "checked"} => n = 0,
         phase'[t] \in {"appended", "streaming"} => n = 1 + Failed(t)' + saved'[t],
         phase'[t] = "done" /\ crashes' = 0 => n = Len(Whole(t)')
  PROVE  Stored(t)'
<1>1. (Stored(t))' = \E k \in 0..Len(Whole(t)') :
           /\ Holds(rows'[sess'[t]], t, Whole(t)', k)
           /\ phase'[t] \in {"refused", "checked"} => k = 0
           /\ phase'[t] \in {"appended", "streaming"} => k = 1 + Failed(t)' + saved'[t]
           /\ phase'[t] = "done" /\ crashes' = 0 => k = Len(Whole(t)')
  BY DEF Stored, Holds
<1> QED
  BY <1>1

LEMMA AppendUserInv ==
  ASSUME ChatInv, NEW t \in Turns, AppendUser(t)
  PROVE  ChatInv'
<1>0. Shape /\ Local(t) /\ Stored(t) /\ Started(t)
  BY InvParts DEF AppendUser, Started
<1>1. answer[t] = <<>> /\ sess[t] \in Sessions
  BY <1>0, SessionOf DEF AppendUser, Local
<1>2. at[t] = 0 /\ saved[t] = 0 /\ Failed(t) = 0 /\ MessagesOf(t) = <<>>
  BY <1>0, <1>1, NothingRead
<1>3. UserRow(t) \in Rows /\ UserRow(t).turn = t /\ UserRow(t).part = "message"
  BY RowsOfTurn
<1>4. Alone(t)
  BY <1>0 DEF AppendUser, Alone, SameTurn, Shape
<1>5. Writes(t, UserRow(t))
  BY <1>0, <1>3, <1>4 DEF AppendUser, Writes, UserRow
<1>6. /\ rows' \in [Sessions -> Seq(Rows)] /\ rows'[sess[t]] = Append(rows[sess[t]], UserRow(t))
      /\ \A s \in Sessions \ {sess[t]} : rows'[s] = rows[s]
      /\ \A u \in Turns \ {t} : Local(u)' /\ (Started(u)' => Stored(u)')
      /\ \A s \in Sessions : Placed(s)'
  BY <1>5, WriteKeeps
<1>7. Shape'
  BY <1>0, <1>1, <1>6 DEF AppendUser, Shape
<1>8. phase'[t] = "appended" /\ SameAnswerOf(t) /\ saved'[t] = 0
  BY <1>0, <1>2 DEF AppendUser, Shape, SameAnswerOf
<1>9. MessagesOf(t)' = MessagesOf(t) /\ Whole(t)' = Whole(t) /\ Failed(t)' = Failed(t)
  BY <1>8, SameAnswer DEF SameAnswerOf
<1>10. Local(t)'
  BY <1>0, <1>1, <1>2, <1>8, <1>9 DEF Local, AppendUser, SameAnswerOf
<1>11. Stored(t)'
  <2>1. RowsOf(t, Whole(t)) /\ Len(Whole(t)) = 1 /\ Whole(t)[1] = UserRow(t)
    <3>1. Len(Whole(t)) = 1 + Failed(t) + Len(MessagesOf(t)) /\ RowsOf(t, Whole(t)) /\ Whole(t)[1] = UserRow(t)
      BY WholeParts, OfAnswer
    <3> QED
      BY <1>2, <3>1
  <2>2. Holds(rows[sess[t]], t, Whole(t), 0)
    BY <1>0 DEF Stored, AppendUser
  <2>3. 0 + 1 <= Len(Whole(t)) /\ 1 = 0 + 1 /\ rows'[sess[t]] = Append(rows[sess[t]], Whole(t)[1])
    BY <1>6, <2>1
  <2>4. Holds(rows'[sess[t]], t, Whole(t), 1)
    BY <1>0, <1>1, <2>1, <2>2, <2>3, HoldsStep
  <2>5. sess' = sess /\ 1 \in 0..Len(Whole(t)) /\ 1 = 1 + Failed(t) + saved'[t]
    BY <1>2, <1>8, <2>1 DEF AppendUser
  <2>6. Holds(rows'[sess'[t]], t, Whole(t)', 1)
    BY <1>9, <2>4, <2>5
  <2> QED
    BY <1>8, <1>9, <2>5, <2>6, StoredNow
<1>12. ASSUME NEW s \in Sessions \ disturbed' PROVE Unbroken(s)'
  <2>0. s \in Sessions \ disturbed /\ sess' = sess /\ Unbroken(s) /\ Placed(s)
    BY <1>12 DEF AppendUser, ChatInv
  <2>1. CASE s = sess[t]
    <3>1. ~ \E u \in Turns \ {t} : Active(u) /\ sess[u] = sess[t]
      BY <1>12, <2>1 DEF AppendUser
    <3>2. \A u \in Turns \ {t} : SameTurn(u) /\ ~(InCall(u) /\ sess[u] = s)
      BY <1>4, <2>1, <3>1 DEF Alone, Active, InCall
    <3>3. NextRow(t, UserRow(t))
      BY <1>3, <1>8 DEF NextRow, HalfStored, AppendUser
    <3> QED
      BY <1>0, <1>3, <1>6, <2>0, <2>1, <3>2, <3>3, UnbrokenAppend
  <2>2. CASE s # sess[t]
    BY <1>4, <1>6, <2>0, <2>2, OtherSessionsKept
  <2> QED
    BY <2>1, <2>2
<1> QED
  BY <1>6, <1>7, <1>10, <1>11, <1>12, StepInv

LEMMA CallModelInv ==
  ASSUME ChatInv, NEW t \in Turns, CallModel(t)
  PROVE  ChatInv'
<1>0. Shape /\ Local(t) /\ Stored(t) /\ Started(t) /\ phase[t] = "appended" /\ sess[t] # None
  BY InvParts DEF CallModel, Started, Local
<1>1. answer[t] = <<>> /\ sess[t] \in Sessions
  BY <1>0, SessionOf DEF Local
<1>2. at[t] = 0 /\ saved[t] = 0 /\ Failed(t) = 0 /\ MessagesOf(t) = <<>>
  BY <1>0, <1>1, NothingRead
<1>3. PICK a \in Answers : answer' = [answer EXCEPT ![t] = a]
  BY DEF CallModel
<1>4. Alone(t)
  BY <1>0, <1>3 DEF CallModel, Alone, SameTurn, Shape
<1>5. Reads(t)
  BY <1>4 DEF CallModel, Reads
<1>6. /\ \A u \in Turns \ {t} : Local(u)' /\ (Started(u)' => Stored(u)')
      /\ \A s \in Sessions : Placed(s)'
  BY <1>5, ReadKeeps
<1>7. Shape'
  BY <1>0, <1>3 DEF CallModel, Shape
<1>8. phase'[t] = "streaming" /\ answer'[t] = a /\ at'[t] = 0 /\ saved'[t] = 0 /\ sess' = sess
      /\ rows' = rows
  BY <1>0, <1>2, <1>3 DEF CallModel, Shape
<1>9. Happened(t)' = {} /\ Failed(t)' = 0
  <2>1. Happened(t)' = {}
    BY <1>8 DEF Happened
  <2> QED
    BY <2>1 DEF Failed
<1>10. /\ MessagesOf(t)' \in Seq(Rows) /\ Len(MessagesOf(t)') \in Nat
       /\ Len(Whole(t)') = 1 + Len(MessagesOf(t)') /\ Whole(t)'[1] = UserRow(t)
  <2>1. /\ MessagesOf(t)' \in Seq(Rows) /\ Len(MessagesOf(t)') \in Nat
        /\ Len(Whole(t)') = 1 + Failed(t)' + Len(MessagesOf(t)') /\ Whole(t)'[1] = UserRow(t)
    BY WholeParts, OfAnswerNext
  <2> QED
    BY <1>9, <2>1
<1>11. Local(t)'
  BY <1>0, <1>8, <1>10, AnswerLength DEF Local
<1>12. Stored(t)'
  <2>1. Holds(rows[sess[t]], t, Whole(t), 1)
    BY <1>0, <1>2 DEF Stored
  <2>2. Whole(t)[1] = UserRow(t)
    BY WholeParts, OfAnswer
  <2>3. \A k \in 1..1 : Whole(t)[k] = Whole(t)'[k]
    BY <1>10, <2>2
  <2>4. Holds(rows[sess[t]], t, Whole(t)', 1)
    BY <2>1, <2>3, HoldsSame
  <2>5. 1 \in 0..Len(Whole(t)') /\ 1 = 1 + Failed(t)' + saved'[t]
    BY <1>8, <1>9, <1>10
  <2> QED
    BY <1>8, <2>4, <2>5, StoredNow
<1>13. ASSUME NEW s \in Sessions \ disturbed' PROVE Unbroken(s)'
  <2>1. s \in Sessions \ disturbed /\ rows'[s] = rows[s]
    BY <1>8, <1>13 DEF CallModel
  <2>2. InCall(t) /\ ~HalfStored(t) /\ ~HalfStored(t)'
    BY <1>0, <1>2, <1>8 DEF InCall, HalfStored
  <2> QED
    BY <1>4, <1>8, <2>1, <2>2, OtherSessionsKept
<1> QED
  BY <1>6, <1>7, <1>11, <1>12, <1>13, StepInv


LEMMA AnswerEvents ==
  ASSUME NEW a \in Answers, NEW i \in 1..Len(a)
  PROVE  a[i] \in {"text", "call", "result", "finish", "error"}
<1>1. CASE a = <<"text", "text", "finish">>
  BY <1>1
<1>2. CASE a = <<"text", "call", "result", "text", "finish">>
  BY <1>2
<1>3. CASE a = <<"error">>
  BY <1>3
<1>4. CASE a = <<"text", "call", "result", "error">>
  BY <1>4
<1> QED
  BY <1>1, <1>2, <1>3, <1>4, AnswerCases

\* Where a turn stored something there is a session.
LEMMA StoredMeansExists ==
  ASSUME ChatInv, NEW t \in Turns, sess[t] \in Sessions, NEW w, Holds(rows[sess[t]], t, w, 1)
  PROVE  sess[t] \in exists
<1>1. 1 \in 1..1
  OBVIOUS
<1>2. PICK i \in DOMAIN rows[sess[t]] : rows[sess[t]][i] = w[1]
  BY <1>1 DEF Holds
<1>3. rows[sess[t]] # <<>>
  BY <1>2
<1> QED
  BY <1>3 DEF ChatInv, Placed

\* The caller of the model is alone in an undisturbed session when it writes.
LEMMA CallerWrites ==
  ASSUME ChatInv, NEW t \in Turns, InCall(t), Alone(t), sess' = sess,
         NEW s \in Sessions \ disturbed, sess[t] = s, NEW r \in Rows, r.turn = t,
         rows'[s] = Append(rows[s], r), NextRow(t, r)
  PROVE  Unbroken(s)'
<1>1. Shape /\ Unbroken(s) /\ Placed(s)
  BY DEF ChatInv
<1>2. \A u \in Turns \ {t} : SameTurn(u) /\ ~(InCall(u) /\ sess[u] = s)
  BY <1>1 DEF Alone, Unbroken
<1> QED
  BY <1>1, <1>2, UnbrokenAppend

\* Before the last event of the answer was read, no error happened and nothing is saved.
LEMMA AnswerUnderway ==
  ASSUME Shape, NEW t \in Turns, Local(t), at[t] < Len(answer[t])
  PROVE  /\ answer[t] \in Answers /\ Len(answer[t]) \in Nat /\ at[t] + 1 \in 1..Len(answer[t])
         /\ saved[t] = 0 /\ Failed(t) = 0
         /\ Read(answer[t], at[t] + 1) = Read(answer[t], at[t]) \cup {answer[t][at[t] + 1]}
<1>1. at[t] \in Nat /\ saved[t] \in Nat /\ answer[t] \in Answers \cup {<<>>}
  BY TurnTypes
<1>2. Len(answer[t]) \in Nat
  BY <1>1, AnswerLength
<1>3. answer[t] \in Answers
  BY <1>1, <1>2
<1>4. saved[t] = 0
  BY <1>1, <1>2 DEF Local
<1>5. at[t] + 1 \in 1..Len(answer[t])
  BY <1>1, <1>2
<1>6. ASSUME "error" \in Read(answer[t], at[t]) PROVE FALSE
  <2>1. PICK i \in 1..at[t] : answer[t][i] = "error"
    BY <1>6 DEF Read
  <2>2. i \in 1..Len(answer[t]) /\ i < Len(answer[t])
    BY <1>1, <1>2
  <2> QED
    BY <1>3, <2>1, <2>2, ErrorComesLast
<1>7. Failed(t) = 0
  BY <1>6, OfAnswer DEF FailedAt
<1>8. 1..(at[t] + 1) = (1..at[t]) \cup {at[t] + 1}
  BY <1>1
<1> QED
  BY <1>2, <1>3, <1>4, <1>5, <1>7, <1>8 DEF Read

LEMMA ModelEventInv ==
  ASSUME ChatInv, NEW t \in Turns, ModelEvent(t)
  PROVE  ChatInv'
<1> DEFINE e == answer[t][at[t] + 1]
<1>0. Shape /\ Local(t) /\ Stored(t) /\ Started(t) /\ phase[t] = "streaming" /\ sess[t] \in Sessions
  BY InvParts, SessionOf DEF ModelEvent, Started
<1>1. /\ answer[t] \in Answers /\ at[t] + 1 \in 1..Len(answer[t]) /\ saved[t] = 0 /\ Failed(t) = 0
      /\ Read(answer[t], at[t] + 1) = Read(answer[t], at[t]) \cup {e} /\ Len(answer[t]) \in Nat
  BY <1>0, AnswerUnderway DEF ModelEvent
<1>2. /\ phase' = phase /\ sess' = sess /\ answer' = answer /\ saved' = saved /\ exists' = exists
      /\ crashes' = crashes /\ disturbed' = disturbed
      /\ at' = [at EXCEPT ![t] = @ + 1]
      /\ IF e = "error" THEN AppendMessage(t, ErrorRow(t)) ELSE rows' = rows
  BY DEF ModelEvent, ErrorRow
<1>3. at'[t] = at[t] + 1 /\ at' \in [Turns -> Nat]
  BY <1>0, <1>2 DEF Shape
<1>4. Alone(t)
  BY <1>0, <1>2 DEF Alone, SameTurn, Shape
<1>5. out' \in [Turns -> Seq(Chunks)]
  <2>1. e \in Chunks
    BY <1>1, AnswerEvents DEF Chunks
  <2>2. out \in [Turns -> Seq(Chunks)] /\ out[t] \in Seq(Chunks)
    BY <1>0 DEF Shape
  <2>3. Append(out[t], e) \in Seq(Chunks)
    BY <2>1, <2>2
  <2>4. out' = [out EXCEPT ![t] = Append(@, e)] \/ out' = out
    BY DEF ModelEvent, Send
  <2> QED
    BY <2>2, <2>3, <2>4
<1>6. Failed(t)' = IF e = "error" THEN 1 ELSE 0
  <2>1. Failed(t)' = FailedAt(answer[t], at[t] + 1)
    BY <1>2, <1>3, OfAnswerNext
  <2>2. "error" \notin Read(answer[t], at[t])
    BY <1>1, OfAnswer DEF FailedAt
  <2> QED
    BY <1>1, <2>1, <2>2 DEF FailedAt
<1>7. MessagesOf(t)' = MessagesOf(t)
  BY <1>2, OfAnswer, OfAnswerNext
<1>8. Local(t)'
  BY <1>0, <1>1, <1>2, <1>3, <1>7 DEF Local
<1>9. /\ RowsOf(t, Whole(t)') /\ Whole(t)'[1] = UserRow(t) /\ Len(MessagesOf(t)) \in Nat
      /\ Len(Whole(t)') = 1 + Failed(t)' + Len(MessagesOf(t))
      /\ Failed(t)' = 1 => Whole(t)'[2] = ErrorRowAt(answer[t], at[t] + 1, t)
  <2>1. /\ RowsOf(t, Whole(t)') /\ Whole(t)'[1] = UserRow(t) /\ Len(MessagesOf(t)') \in Nat
        /\ Len(Whole(t)') = 1 + Failed(t)' + Len(MessagesOf(t)')
        /\ Failed(t)' = 1 => Whole(t)'[2] = ErrorRowAt(answer'[t], at'[t], t)
    BY WholeParts, OfAnswerNext
  <2> QED
    BY <1>2, <1>3, <1>7, <2>1
\* The user's message stands there, and nothing else of the turn.
<1>10. Holds(rows[sess[t]], t, Whole(t)', 1)
  <2>1. Holds(rows[sess[t]], t, Whole(t), 1)
    BY <1>0, <1>1 DEF Stored
  <2>2. Whole(t)[1] = UserRow(t)
    BY WholeParts, OfAnswer
  <2>3. \A k \in 1..1 : Whole(t)[k] = Whole(t)'[k]
    BY <1>9, <2>2
  <2> QED
    BY <2>1, <2>3, HoldsSame
<1>11. ~HalfStored(t) /\ ~HalfStored(t)' /\ InCall(t) /\ InCall(t)'
  BY <1>0, <1>1, <1>2 DEF HalfStored, InCall
<1>12. CASE e # "error"
  <2>1. Reads(t) /\ rows' = rows
    BY <1>2, <1>4, <1>12 DEF Reads
  <2>2. /\ \A u \in Turns \ {t} : Local(u)' /\ (Started(u)' => Stored(u)')
        /\ \A s \in Sessions : Placed(s)'
    BY <2>1, ReadKeeps
  <2>3. Shape'
    BY <1>0, <1>2, <1>3, <1>5, <2>1 DEF Shape
  <2>4. Stored(t)'
    <3>1. Failed(t)' = 0 /\ 1 \in 0..Len(Whole(t)') /\ 1 = 1 + Failed(t)' + saved'[t]
      BY <1>1, <1>2, <1>6, <1>9, <1>12
    <3>2. Holds(rows'[sess'[t]], t, Whole(t)', 1) /\ phase'[t] = "streaming"
      BY <1>0, <1>2, <1>10, <2>1
    <3> QED
      BY <3>1, <3>2, StoredNow
  <2>5. \A s \in Sessions \ disturbed' : Unbroken(s)'
    BY <1>2, <1>4, <1>11, <2>1, OtherSessionsKept
  <2> QED
    BY <1>8, <2>2, <2>3, <2>4, <2>5, StepInv
<1>13. CASE e = "error"
  <2> DEFINE r == ErrorRow(t)
  <2>1. r = ErrorRowAt(answer[t], at[t] + 1, t)
    <3>1. ("text" \in Happened(t)) <=> ("text" \in Read(answer[t], at[t] + 1))
      BY <1>1, <1>13, OfAnswer
    <3> QED
      BY <3>1 DEF ErrorRow, ErrorRowAt
  <2>2. r \in Rows /\ r.turn = t /\ r.part \notin {"call", "result"}
    BY <2>1, RowsOfTurn
  <2> HIDE DEF r
  <2>3. Writes(t, r)
    <3>1. AppendMessage(t, r)
      BY <1>2, <1>13 DEF r
    <3>2. sess[t] \in exists
      BY <1>0, StoredMeansExists, <1>10
    <3> QED
      BY <1>0, <1>2, <1>4, <2>2, <3>1, <3>2 DEF Writes
  <2>4. /\ rows' \in [Sessions -> Seq(Rows)] /\ rows'[sess[t]] = Append(rows[sess[t]], r)
        /\ \A s \in Sessions \ {sess[t]} : rows'[s] = rows[s]
        /\ \A u \in Turns \ {t} : Local(u)' /\ (Started(u)' => Stored(u)')
        /\ \A s \in Sessions : Placed(s)'
    BY <2>3, WriteKeeps
  <2>5. Shape'
    BY <1>0, <1>2, <1>3, <1>5, <2>4 DEF Shape
  <2>6. Stored(t)'
    <3>1. Failed(t)' = 1 /\ Whole(t)'[2] = r /\ 2 \in 0..Len(Whole(t)') /\ 1 + 1 <= Len(Whole(t)')
          /\ 2 = 1 + 1 /\ 2 = 1 + Failed(t)' + saved'[t]
      BY <1>1, <1>2, <1>6, <1>9, <1>13, <2>1
    <3>2. Holds(rows'[sess[t]], t, Whole(t)', 2)
      BY <1>0, <1>9, <1>10, <2>4, <3>1, HoldsStep
    <3>3. Holds(rows'[sess'[t]], t, Whole(t)', 2) /\ phase'[t] = "streaming"
      BY <1>0, <1>2, <3>2
    <3> QED
      BY <3>1, <3>3, StoredNow
  <2>7. ASSUME NEW s \in Sessions \ disturbed' PROVE Unbroken(s)'
    <3>1. s \in Sessions \ disturbed /\ Unbroken(s) /\ Placed(s)
      BY <1>2, <2>7 DEF ChatInv
    <3>2. CASE s = sess[t]
      BY <1>0, <1>2, <1>4, <1>11, <2>2, <2>4, <3>1, <3>2, CallerWrites DEF NextRow
    <3>3. CASE s # sess[t]
      BY <1>2, <1>4, <2>4, <3>1, <3>3, OtherSessionsKept
    <3> QED
      BY <3>2, <3>3
  <2> QED
    BY <1>8, <2>4, <2>5, <2>6, <2>7, StepInv
<1> QED
  BY <1>12, <1>13


LEMMA PersistNextInv ==
  ASSUME ChatInv, NEW t \in Turns, PersistNext(t)
  PROVE  ChatInv'
<1> DEFINE M == MessagesOf(t)  W == Whole(t)  r == M[saved[t] + 1]  n == 1 + Failed(t) + saved[t]
<1>0. Shape /\ Local(t) /\ Stored(t) /\ Started(t) /\ sess[t] \in Sessions
      /\ saved[t] \in Nat /\ at[t] \in Nat
  BY InvParts, SessionOf, TurnTypes DEF PersistNext, AnswerRead, Started
<1>1. /\ phase[t] = "streaming" /\ at[t] = Len(answer[t]) /\ saved[t] < Len(M)
      /\ saved' = [saved EXCEPT ![t] = @ + 1] /\ AppendMessage(t, r)
      /\ UNCHANGED <<exists, phase, sess, answer, at, out, crashes, disturbed>>
  BY DEF PersistNext, AnswerRead
<1>2. saved'[t] = saved[t] + 1 /\ saved' \in [Turns -> Nat]
  BY <1>0, <1>1 DEF Shape
<1>3. /\ RowsOf(t, W) /\ Failed(t) \in {0, 1} /\ M \in Seq(Rows) /\ Len(M) \in 0..3
      /\ Len(W) = 1 + Failed(t) + Len(M)
      /\ \A k \in 1..Len(M) : W[1 + Failed(t) + k] = M[k]
      /\ Len(M) = 1 => M[1] = TextRow(t)
      /\ Len(M) > 1 => M[1] = CallRow(t) /\ M[2] = ResultRow(t)
      /\ Len(M) > 2 => M[3] = TextRow(t)
  BY WholeParts, OfAnswer
<1>4. /\ MessagesOf(t)' = M /\ Whole(t)' = W /\ Failed(t)' = Failed(t)
  BY <1>1, SameAnswer
<1> HIDE DEF M, W
<1>5. saved[t] + 1 \in 1..Len(M) /\ saved[t] \in {0, 1, 2} /\ (Len(M) = 1 \/ Len(M) > 1)
  <2>1. \A k \in Nat, l \in 0..3 : k < l => k + 1 \in 1..l /\ k \in {0, 1, 2} /\ (l = 1 \/ l > 1)
    OBVIOUS
  <2>2. saved[t] \in Nat /\ Len(M) \in 0..3 /\ saved[t] < Len(M)
    BY <1>0, <1>1, <1>3 DEF M
  <2> QED
    BY <2>1, <2>2
<1>6. n \in Nat /\ n + 1 <= Len(W) /\ n + 1 = 1 + Failed(t) + (saved[t] + 1) /\ W[n + 1] = r
      /\ n + 1 \in 0..Len(W)
  <2>1. \A f, k, l \in Nat : k < l => 1 + f + k \in Nat /\ (1 + f + k) + 1 <= 1 + f + l
                                   /\ (1 + f + k) + 1 = 1 + f + (k + 1)
    OBVIOUS
  <2>2. n \in Nat /\ n + 1 <= Len(W) /\ n + 1 = 1 + Failed(t) + (saved[t] + 1)
    BY <1>0, <1>1, <1>3, <2>1
  <2>3. W[n + 1] = r
    BY <1>3, <1>5, <2>2
  <2> QED
    BY <1>3, <2>2, <2>3
<1> HIDE DEF n
<1>7. r \in Rows /\ r.turn = t
  <2>1. n + 1 \in DOMAIN W /\ W \in Seq(Rows) /\ \A k \in DOMAIN W : W[k].turn = t
    BY <1>3, <1>6 DEF RowsOf
  <2> QED
    BY <1>6, <2>1
<1>8. Alone(t)
  BY <1>0, <1>1 DEF Alone, SameTurn, Shape
<1>9. Holds(rows[sess[t]], t, W, n)
  BY <1>0, <1>1 DEF Stored, W, n
<1>10. sess[t] \in exists
  <2>1. 1 \in 1..n
    BY <1>0, <1>3, <1>6 DEF n
  <2>2. PICK i \in DOMAIN rows[sess[t]] : rows[sess[t]][i] = W[1]
    BY <1>9, <2>1 DEF Holds
  <2>3. rows[sess[t]] # <<>>
    BY <2>2
  <2> QED
    BY <1>0, <2>3 DEF ChatInv, Placed
<1> HIDE DEF r
<1>11. Writes(t, r)
  BY <1>0, <1>1, <1>7, <1>8, <1>10 DEF Writes
<1>12. /\ rows' \in [Sessions -> Seq(Rows)] /\ rows'[sess[t]] = Append(rows[sess[t]], r)
       /\ \A s \in Sessions \ {sess[t]} : rows'[s] = rows[s]
       /\ \A u \in Turns \ {t} : Local(u)' /\ (Started(u)' => Stored(u)')
       /\ \A s \in Sessions : Placed(s)'
  BY <1>11, WriteKeeps
<1>13. Shape'
  BY <1>0, <1>1, <1>2, <1>12 DEF Shape
<1>14. Local(t)'
  <2>1. saved'[t] <= Len(MessagesOf(t)')
    BY <1>0, <1>1, <1>2, <1>3, <1>4
  <2> QED
    BY <1>0, <1>1, <1>2, <2>1 DEF Local
<1>15. Stored(t)'
  <2>1. Holds(rows'[sess[t]], t, W, n + 1)
    BY <1>0, <1>3, <1>6, <1>9, <1>12, HoldsStep
  <2>2. Holds(rows'[sess'[t]], t, Whole(t)', n + 1) /\ phase'[t] = "streaming"
        /\ n + 1 = 1 + Failed(t)' + saved'[t] /\ n + 1 \in 0..Len(Whole(t)')
    BY <1>1, <1>2, <1>4, <1>6, <2>1
  <2> QED
    BY <2>2, StoredNow
\* A call is stored first, its result next, the text last.
<1>16. NextRow(t, r)
  <2>0. (HalfStored(t) <=> saved[t] = 1 /\ Len(M) > 1)
        /\ (HalfStored(t)' <=> saved[t] + 1 = 1 /\ Len(M) > 1)
    BY <1>1, <1>2, <1>4 DEF HalfStored, M
  <2>1. TextRow(t).part = "text"
    BY RowsOfTurn
  <2>2. CASE saved[t] = 0 /\ Len(M) = 1
    BY <1>3, <2>0, <2>1, <2>2 DEF NextRow, r
  <2>3. CASE saved[t] = 0 /\ Len(M) > 1
    BY <1>3, <2>0, <2>3 DEF NextRow, r
  <2>4. CASE saved[t] = 1
    BY <1>1, <1>3, <2>0, <2>4 DEF NextRow, r
  <2>5. CASE saved[t] = 2
    BY <1>1, <1>3, <2>0, <2>1, <2>5 DEF NextRow, r
  <2> QED
    BY <1>5, <2>2, <2>3, <2>4, <2>5
<1>17. ASSUME NEW s \in Sessions \ disturbed' PROVE Unbroken(s)'
  <2>1. s \in Sessions \ disturbed /\ InCall(t)
    BY <1>1, <1>17 DEF InCall
  <2>2. CASE s = sess[t]
    BY <1>1, <1>7, <1>8, <1>12, <1>16, <2>1, <2>2, CallerWrites
  <2>3. CASE s # sess[t]
    BY <1>1, <1>8, <1>12, <2>1, <2>3, OtherSessionsKept
  <2> QED
    BY <2>2, <2>3
<1> QED
  BY <1>12, <1>13, <1>14, <1>15, <1>17, StepInv

LEMMA CloseStreamInv ==
  ASSUME ChatInv, NEW t \in Turns, CloseStream(t)
  PROVE  ChatInv'
<1>0. Shape /\ Local(t) /\ Stored(t) /\ Started(t)
  BY InvParts DEF CloseStream, AnswerRead, Started
<1>1. /\ phase[t] = "streaming" /\ at[t] = Len(answer[t]) /\ saved[t] = Len(MessagesOf(t))
      /\ phase' = [phase EXCEPT ![t] = "done"]
      /\ UNCHANGED <<exists, rows, sess, answer, at, saved, crashes, disturbed>>
  BY DEF CloseStream, AnswerRead
<1>2. phase'[t] = "done"
  BY <1>0, <1>1 DEF Shape
<1>3. MessagesOf(t)' = MessagesOf(t) /\ Whole(t)' = Whole(t)
  BY <1>1, SameAnswer
<1>4. Alone(t)
  BY <1>0, <1>1 DEF Alone, SameTurn, Shape
<1>5. Reads(t)
  BY <1>1, <1>4 DEF Reads
<1>6. /\ \A u \in Turns \ {t} : Local(u)' /\ (Started(u)' => Stored(u)')
      /\ \A s \in Sessions : Placed(s)'
  BY <1>5, ReadKeeps
<1>7. Shape'
  <2>1. out' \in [Turns -> Seq(Chunks)]
    <3>1. out \in [Turns -> Seq(Chunks)] /\ Append(out[t], "end") \in Seq(Chunks)
      BY <1>0 DEF Shape, Chunks
    <3>2. out' = [out EXCEPT ![t] = Append(@, "end")] \/ out' = out
      BY DEF CloseStream, Send
    <3> QED
      BY <3>1, <3>2
  <2>2. phase' \in [Turns -> {"idle", "refused", "lost", "checked", "appended", "streaming", "done", "gone"}]
    BY <1>0, <1>1 DEF Shape
  <2> QED
    BY <1>0, <1>1, <2>1, <2>2 DEF Shape
<1>8. Local(t)'
  BY <1>0, <1>1, <1>2, <1>3 DEF Local
<1>9. Stored(t)'
  <2>1. Len(Whole(t)) = 1 + Failed(t) + saved[t] /\ Len(Whole(t)) \in 0..Len(Whole(t))
    <3>1. /\ Len(Whole(t)) = 1 + Failed(t) + Len(MessagesOf(t)) /\ Failed(t) \in {0, 1}
          /\ Len(MessagesOf(t)) \in 0..3
      BY WholeParts, OfAnswer
    <3> QED
      BY <1>1, <3>1
  <2>2. Holds(rows[sess[t]], t, Whole(t), Len(Whole(t)))
    BY <1>0, <1>1, <2>1 DEF Stored
  <2>3. Holds(rows'[sess'[t]], t, Whole(t)', Len(Whole(t)')) /\ Len(Whole(t)') \in 0..Len(Whole(t)')
    BY <1>1, <1>3, <2>1, <2>2
  <2> QED
    BY <1>2, <2>3, StoredNow
<1>10. ASSUME NEW s \in Sessions \ disturbed' PROVE Unbroken(s)'
  <2>1. ~HalfStored(t) /\ ~HalfStored(t)' /\ ~InCall(t)'
    <3>1. \A l \in 0..3 : ~(l = 1 /\ l > 1)
      OBVIOUS
    <3>2. Len(MessagesOf(t)) \in 0..3
      BY WholeParts, OfAnswer
    <3>3. ~(saved[t] = 1 /\ Len(MessagesOf(t)) > 1)
      BY <1>1, <3>1, <3>2
    <3> QED
      BY <1>2, <3>3 DEF HalfStored, InCall
  <2> QED
    BY <1>1, <1>4, <1>10, <2>1, OtherSessionsKept
<1> QED
  BY <1>6, <1>7, <1>8, <1>9, <1>10, StepInv

LEMMA StandStillInv ==
  ASSUME ChatInv, NEW t \in Turns, StandStill(t)
  PROVE  ChatInv'
<1>0. Shape /\ Local(t) /\ Stored(t) /\ Started(t)
  BY InvParts DEF StandStill, Started
<1>1. /\ phase[t] = "streaming" /\ saved[t] = 0
      /\ phase' = [phase EXCEPT ![t] = "gone"]
      /\ UNCHANGED <<exists, rows, sess, answer, at, saved, out, crashes, disturbed>>
  BY <1>0, AnswerUnderway DEF StandStill
<1>2. phase'[t] = "gone"
  BY <1>0, <1>1 DEF Shape
<1>3. MessagesOf(t)' = MessagesOf(t) /\ Whole(t)' = Whole(t)
  BY <1>1, SameAnswer
<1>4. Alone(t)
  BY <1>0, <1>1 DEF Alone, SameTurn, Shape
<1>5. Reads(t)
  BY <1>1, <1>4 DEF Reads
<1>6. /\ \A u \in Turns \ {t} : Local(u)' /\ (Started(u)' => Stored(u)')
      /\ \A s \in Sessions : Placed(s)'
  BY <1>5, ReadKeeps
<1>7. Shape'
  BY <1>0, <1>1 DEF Shape
<1>8. Local(t)'
  BY <1>0, <1>1, <1>2, <1>3 DEF Local
<1>9. Stored(t)'
  <2>1. PICK n \in 0..Len(Whole(t)) : Holds(rows[sess[t]], t, Whole(t), n)
    BY <1>0 DEF Stored
  <2>2. Holds(rows'[sess'[t]], t, Whole(t)', n) /\ n \in 0..Len(Whole(t)')
    BY <1>1, <1>3, <2>1
  <2> QED
    BY <1>2, <2>2, StoredNow
<1>10. ASSUME NEW s \in Sessions \ disturbed' PROVE Unbroken(s)'
  <2>1. ~HalfStored(t) /\ ~HalfStored(t)' /\ ~InCall(t)'
    BY <1>1, <1>2 DEF HalfStored, InCall
  <2> QED
    BY <1>1, <1>4, <1>10, <2>1, OtherSessionsKept
<1> QED
  BY <1>6, <1>7, <1>8, <1>9, <1>10, StepInv


\* A turn that did not begin has no row.
LEMMA NoRowYet ==
  ASSUME ChatInv, NEW t \in Turns, ~Started(t), NEW s \in Sessions, NEW i \in DOMAIN rows[s]
  PROVE  rows[s][i].turn # t
<1>1. Local(t) /\ Placed(s)
  BY DEF ChatInv
<1>2. sess[t] = None
  BY <1>1 DEF Local, Started
<1> QED
  BY <1>1, <1>2, ChatAssumption DEF Placed

LEMMA BeginInv ==
  ASSUME ChatInv, NEW t \in Turns, NEW s \in Sessions, Begin(t, s)
  PROVE  ChatInv'
<1>0. Shape /\ Local(t) /\ ~Started(t) /\ phase[t] = "idle"
  BY InvParts DEF Begin, Started
<1>1. /\ sess' = [sess EXCEPT ![t] = s]
      /\ UNCHANGED <<exists, rows, answer, at, saved, out, crashes, disturbed>>
      /\ \/ phase' = [phase EXCEPT ![t] = "checked"]
         \/ phase' = [phase EXCEPT ![t] = "refused"]
  BY DEF Begin
<1>2. phase'[t] \in {"checked", "refused"} /\ sess'[t] = s /\ s # None
  BY <1>0, <1>1, ChatAssumption DEF Shape
<1>3. answer[t] = <<>>
  BY <1>0 DEF Local
<1>4. MessagesOf(t)' = MessagesOf(t) /\ Whole(t)' = Whole(t)
  BY <1>1, SameAnswer
<1>5. Alone(t)
  BY <1>0, <1>1 DEF Alone, SameTurn, Shape
<1>6. Shape'
  BY <1>0, <1>1 DEF Shape
<1>7. Local(t)'
  BY <1>0, <1>1, <1>2, <1>3, <1>4 DEF Local
<1>8. Stored(t)'
  <2>1. Holds(rows[s], t, Whole(t), 0)
    BY <1>0, NoRowYet, HoldsNone
  <2>2. Len(Whole(t)) \in Nat
    <3>1. /\ Len(Whole(t)) = 1 + Failed(t) + Len(MessagesOf(t)) /\ Failed(t) \in {0, 1}
          /\ Len(MessagesOf(t)) \in 0..3
      BY WholeParts, OfAnswer
    <3> QED
      BY <3>1
  <2>3. Holds(rows'[sess'[t]], t, Whole(t)', 0) /\ 0 \in 0..Len(Whole(t)')
    BY <1>1, <1>2, <1>4, <2>1, <2>2
  <2> QED
    BY <1>2, <2>3, StoredNow
<1>9. ASSUME NEW u \in Turns \ {t} PROVE Local(u)' /\ (Started(u)' => Stored(u)')
  <2>1. SameTurn(u) /\ Local(u) /\ (Started(u) => Stored(u)) /\ (Started(u)' => Started(u))
    BY <1>5 DEF ChatInv, Alone, Started, SameTurn
  <2> QED
    BY <1>0, <1>1, <2>1, LocalKept, StoredKept
<1>10. ASSUME NEW q \in Sessions PROVE Placed(q)'
  <2>1. Placed(q) /\ rows'[q] = rows[q] /\ exists \subseteq exists'
    BY <1>1 DEF ChatInv
  <2>2. \A i \in DOMAIN rows[q] : rows[q][i].turn \in Turns \ {t}
    BY <1>0, NoRowYet, SessionTypes
  <2>3. \A i \in DOMAIN rows[q] : sess'[rows[q][i].turn] = q
    BY <1>5, <2>1, <2>2 DEF Alone, SameTurn, Placed
  <2> QED
    BY <2>1, <2>3, PlacedKept
<1>11. ASSUME NEW q \in Sessions \ disturbed' PROVE Unbroken(q)'
  <2>1. Unbroken(q) /\ Placed(q) /\ rows'[q] = rows[q]
    BY <1>1, <1>11 DEF ChatInv
  <2>2. ~HalfStored(t) /\ ~HalfStored(t)' /\ ~InCall(t)'
    BY <1>0, <1>2 DEF HalfStored, InCall
  <2>3. \A u \in Turns \ {t} : /\ InCall(u)' => InCall(u) /\ sess'[u] = sess[u]
                               /\ HalfStored(u)' <=> HalfStored(u)
    <3>1. ASSUME NEW u \in Turns \ {t}
          PROVE  (InCall(u)' => InCall(u)) /\ sess'[u] = sess[u] /\ (HalfStored(u)' <=> HalfStored(u))
      <4>1. SameTurn(u)
        BY <1>5 DEF Alone
      <4>2. MessagesOf(u)' = MessagesOf(u)
        BY <4>1, SameAnswer DEF SameTurn
      <4> QED
        BY <4>1, <4>2 DEF SameTurn, InCall, HalfStored
    <3> QED
      BY <3>1
  <2>4. SameCalls(q)
    BY <1>5, <2>2, <2>3 DEF SameCalls, Alone, SameTurn
  <2> QED
    BY <1>0, <2>1, <2>4, UnbrokenKept
<1> QED
  BY <1>6, <1>7, <1>8, <1>9, <1>10, <1>11, StepInv

LEMMA CrashInv ==
  ASSUME ChatInv, Crash
  PROVE  ChatInv'
<1>0. Shape /\ (\A t \in Turns : Local(t)) /\ (\A s \in Sessions : Placed(s))
  BY DEF ChatInv
<1>1. PICK pruned \in SUBSET exists :
        /\ exists' = exists \ pruned
        /\ rows' = [s \in Sessions |-> IF s \in pruned THEN <<>> ELSE rows[s]]
  BY DEF Crash
<1>7. PICK halfSent \in SUBSET {t \in Turns : phase[t] = "refused" /\ listening[t]} :
        phase' = [t \in Turns |-> IF Active(t) THEN "gone"
                                 ELSE IF t \in halfSent THEN "lost" ELSE phase[t]]
  BY DEF Crash
<1>8. \A t \in halfSent : phase[t] = "refused"
  OBVIOUS
<1>2. /\ crashes < MaxCrashes /\ crashes' = crashes + 1
      /\ out' = [t \in Turns |-> IF Active(t) /\ listening[t] THEN Append(out[t], "cut") ELSE out[t]]
      /\ disturbed' = disturbed \cup {sess[t] : t \in {u \in Turns : Active(u)}}
      /\ UNCHANGED <<sess, answer, at, saved>>
  BY DEF Crash
<1>3. Shape'
  <2>1. exists' \subseteq Sessions /\ crashes' \in 0..MaxCrashes
    BY <1>0, <1>1, <1>2, ChatAssumption DEF Shape
  <2>2. rows' \in [Sessions -> Seq(Rows)]
    BY <1>0, <1>1 DEF Shape
  <2>3. phase' \in [Turns -> {"idle", "refused", "lost", "checked", "appended", "streaming", "done", "gone"}]
    BY <1>0, <1>7 DEF Shape
  <2>4. out' \in [Turns -> Seq(Chunks)]
    <3>1. \A t \in Turns : out[t] \in Seq(Chunks) /\ Append(out[t], "cut") \in Seq(Chunks)
      BY <1>0 DEF Shape, Chunks
    <3> QED
      BY <1>2, <3>1
  <2> QED
    BY <1>0, <1>2, <2>1, <2>2, <2>3, <2>4 DEF Shape
<1>4. ASSUME NEW t \in Turns PROVE Local(t)' /\ (Started(t)' => Stored(t)')
  <2>1. MessagesOf(t)' = MessagesOf(t) /\ Whole(t)' = Whole(t)
    BY <1>2, SameAnswer
  <2>2. \/ phase'[t] = "gone"
        \/ phase'[t] = "lost" /\ phase[t] = "refused"
        \/ phase'[t] = phase[t] /\ phase[t] \in {"idle", "refused", "lost", "done", "gone"}
    BY <1>0, <1>7, <1>8, TurnTypes DEF Active
  <2>3. (phase'[t] = "idle") <=> (phase[t] = "idle")
    BY <1>7, <1>8 DEF Active
  <2>4. Local(t)'
    BY <1>0, <1>2, <2>1, <2>2, <2>3 DEF Local
  <2>5. ASSUME Started(t)' PROVE Stored(t)'
    <3>1. Started(t) /\ Stored(t) /\ sess[t] \in Sessions
      BY <1>0, <2>3, <2>5, SessionOf DEF Started, ChatInv
    <3>2. crashes' # 0
      BY <1>0, <1>2 DEF Shape
    <3>3. CASE sess[t] \in pruned
      <4>1. Holds(<<>>, t, Whole(t), 0)
        <5>1. \A i \in DOMAIN <<>> : <<>>[i].turn # t
          OBVIOUS
        <5> QED
          BY <5>1, HoldsNone
      <4>2. Len(Whole(t)) \in Nat
        <5>1. /\ Len(Whole(t)) = 1 + Failed(t) + Len(MessagesOf(t)) /\ Failed(t) \in {0, 1}
              /\ Len(MessagesOf(t)) \in 0..3
          BY WholeParts, OfAnswer
        <5> QED
          BY <5>1
      <4>3. Holds(rows'[sess'[t]], t, Whole(t)', 0) /\ 0 \in 0..Len(Whole(t)')
        BY <1>1, <1>2, <2>1, <3>1, <3>3, <4>1, <4>2
      <4> QED
        BY <2>2, <3>2, <4>3, StoredNow
    <3>4. CASE sess[t] \notin pruned
      <4>1. PICK n \in 0..Len(Whole(t)) : /\ Holds(rows[sess[t]], t, Whole(t), n)
                                          /\ phase[t] \in {"refused", "checked"} => n = 0
        BY <3>1 DEF Stored
      <4>2. Holds(rows'[sess'[t]], t, Whole(t)', n) /\ n \in 0..Len(Whole(t)')
        BY <1>1, <1>2, <2>1, <3>1, <3>4, <4>1
      <4>3. phase'[t] \in {"refused", "checked"} => n = 0
        BY <2>2, <4>1
      <4> QED
        BY <2>2, <3>2, <4>2, <4>3, StoredNow
    <3> QED
      BY <3>3, <3>4
  <2> QED
    BY <2>4, <2>5
<1>5. ASSUME NEW s \in Sessions PROVE Placed(s)'
  <2>1. CASE s \in pruned
    BY <1>1, <2>1 DEF Placed
  <2>2. CASE s \notin pruned
    BY <1>0, <1>1, <1>2, <2>2 DEF Placed
  <2> QED
    BY <2>1, <2>2
<1>6. ASSUME NEW s \in Sessions \ disturbed' PROVE Unbroken(s)'
  <2>1. Unbroken(s) /\ Placed(s)
    BY <1>2, <1>6 DEF ChatInv
  <2>2. \A u \in Turns : sess[u] = s => ~Active(u)
    BY <1>2, <1>6
  <2>3. \A u \in Turns : sess[u] = s =>
          ~InCall(u) /\ ~InCall(u)' /\ ~HalfStored(u) /\ ~HalfStored(u)'
    BY <1>2, <1>7, <1>8, <2>2 DEF Active, InCall, HalfStored
  <2>4. CASE s \in pruned
    <3>1. rows'[s] = <<>>
      BY <1>1, <2>4
    <3> QED
      BY <1>2, <2>3, <3>1 DEF Unbroken
  <2>5. CASE s \notin pruned
    <3>1. rows'[s] = rows[s] /\ SameCalls(s)
      BY <1>1, <1>2, <2>3, <2>5 DEF SameCalls
    <3> QED
      BY <1>0, <2>1, <3>1, UnbrokenKept
  <2> QED
    BY <2>4, <2>5
<1> QED
  BY <1>3, <1>4, <1>5, <1>6 DEF ChatInv

\* A step that leaves the daemon's turns and their rows as they are.
Quiet ==
  /\ UNCHANGED <<rows, phase, sess, answer, at, saved, crashes, disturbed>>
  /\ exists \subseteq exists' /\ exists' \subseteq Sessions
  /\ out' \in [Turns -> Seq(Chunks)]

LEMMA QuietInv ==
  ASSUME ChatInv, Quiet
  PROVE  ChatInv'
<1>0. Shape /\ (\A t \in Turns : Local(t) /\ SameTurn(t) /\ (Started(t)' => Started(t) /\ Stored(t)))
  BY DEF ChatInv, Quiet, SameTurn, Started
<1>1. Shape'
  BY <1>0 DEF Quiet, Shape
<1>2. \A t \in Turns : Local(t)' /\ (Started(t)' => Stored(t)')
  <2>1. rows' = rows /\ crashes' = crashes
    BY DEF Quiet
  <2> QED
    BY <1>0, <2>1, LocalKept, StoredKept
<1>3. \A s \in Sessions : Placed(s)'
  BY DEF ChatInv, Quiet, Placed
<1>4. ASSUME NEW s \in Sessions \ disturbed' PROVE Unbroken(s)'
  <2>1. Unbroken(s) /\ Placed(s) /\ rows'[s] = rows[s]
    BY <1>4 DEF ChatInv, Quiet
  <2>2. SameCalls(s)
    <3>1. ASSUME NEW u \in Turns
          PROVE  (InCall(u)' => InCall(u)) /\ sess'[u] = sess[u] /\ (HalfStored(u)' <=> HalfStored(u))
      <4>1. SameTurn(u) /\ MessagesOf(u)' = MessagesOf(u)
        BY <1>0, SameAnswer DEF SameTurn
      <4> QED
        BY <4>1 DEF SameTurn, InCall, HalfStored
    <3> QED
      BY <3>1 DEF SameCalls
  <2> QED
    BY <1>0, <2>1, <2>2, UnbrokenKept
<1> QED
  BY <1>1, <1>2, <1>3, <1>4 DEF ChatInv


-----------------------------------------------------------------------------
(* The steps of the client. *)

LEMMA HangUpTyped ==
  ASSUME Shape, NEW ts, HangUp(ts)
  PROVE  out' \in [Turns -> Seq(Chunks)]
<1>1. \A t \in Turns : out[t] \in Seq(Chunks) /\ <<>> \in Seq(Chunks)
  BY DEF Shape
<1> QED
  BY <1>1 DEF HangUp

LEMMA TakeTyped ==
  ASSUME Shape, NEW t \in Turns, out[t] # <<>>, out' = [out EXCEPT ![t] = Tail(@)]
  PROVE  out' \in [Turns -> Seq(Chunks)] /\ Head(out[t]) \in Chunks
<1>1. out \in [Turns -> Seq(Chunks)] /\ out[t] \in Seq(Chunks)
  BY DEF Shape
<1>2. Tail(out[t]) \in Seq(Chunks) /\ Head(out[t]) \in Chunks
  BY <1>1, HeadTailProperties
<1> QED
  BY <1>1, <1>2

\* The daemon is not concerned but for the ends of the connections.
LEMMA QuietOut ==
  ASSUME ChatInv, UNCHANGED <<exists, rows, phase, sess, answer, at, saved, crashes, disturbed>>,
         out' \in [Turns -> Seq(Chunks)]
  PROVE  Quiet /\ \A t \in Turns : Started(t)' <=> Started(t)
<1>1. exists \subseteq Sessions
  BY DEF ChatInv, Shape
<1> QED
  BY <1>1 DEF Quiet, Started

LEMMA QuietAll ==
  ASSUME ChatInv, UNCHANGED chatVars
  PROVE  Quiet /\ \A t \in Turns : Started(t)' <=> Started(t)
<1>1. out' \in [Turns -> Seq(Chunks)]
  BY DEF ChatInv, Shape, chatVars
<1> QED
  BY <1>1, QuietOut DEF chatVars

LEMMA StartLoadTyped ==
  ASSUME ClientInv, NEW why \in {"boot", "refresh", "switch"}, NEW t \in TuiTurns \cup {None},
         NEW s \in Sessions, StartLoad(why, t, s)
  PROVE  /\ loads' \subseteq Loads /\ loaded' \in Nat
         /\ \A l \in loads' : l.n < loaded'
<1> DEFINE new == [n |-> loaded, why |-> why, turn |-> t, session |-> s, got |-> FALSE, rows |-> <<>>]
<1>1. /\ loads \subseteq Loads /\ loaded \in Nat /\ \A l \in loads : l.n < loaded
      /\ loaded' = loaded + 1 /\ loads' = loads \cup {new}
  BY DEF StartLoad, ClientInv, ClientShape, ClientTurns
<1>2. new \in Loads /\ new.n = loaded
  BY <1>1 DEF Loads
<1>3. \A l \in loads : l.n \in Nat
  BY <1>1 DEF Loads
<1> HIDE DEF new
<1> QED
  BY <1>1, <1>2, <1>3

LEMMA SendEndsTyped ==
  ASSUME ClientInv, NEW t \in TuiTurns \cup {None}, SendEnds(t)
  PROVE  /\ abortRef' \in TuiTurns \cup {None}
         /\ stage' \in [TuiTurns -> {"none", "stream", "refresh", "over"}]
         /\ \A u \in TuiTurns : stage'[u] = "stream" => stage[u] = "stream"
  BY DEF SendEnds, ClientInv, ClientShape

\* What is left to show of a step that loads nothing new.
LEMMA ClientKept ==
  ASSUME ClientInv, alive' \in BOOLEAN, isStreaming' \in BOOLEAN, calm' \in BOOLEAN,
         session' \in Sessions \cup {None}, abortRef' \in TuiTurns \cup {None},
         status' \in {"initializing", "ready", "streaming", "error"},
         stage' \in [TuiTurns -> {"none", "stream", "refresh", "over"}],
         loads' \subseteq loads, loaded' = loaded,
         session # None => session' # None,
         (status' \in {"ready", "streaming"} \/ isStreaming') => session' # None,
         \A t \in TuiTurns : Started(t) => Started(t)',
         \A t \in TuiTurns : stage'[t] = "stream" => session' # None /\ Started(t)'
  PROVE  ClientInv'
<1>1. ClientShape'
  BY DEF ClientInv, ClientShape
<1>2. ClientTurns'
  BY DEF ClientInv, ClientTurns
<1> QED
  BY <1>1, <1>2 DEF ClientInv

LEMMA ClientParts ==
  ASSUME ClientInv
  PROVE  /\ alive \in BOOLEAN /\ isStreaming \in BOOLEAN /\ calm \in BOOLEAN
         /\ session \in Sessions \cup {None} /\ abortRef \in TuiTurns \cup {None}
         /\ status \in {"initializing", "ready", "streaming", "error"}
         /\ stage \in [TuiTurns -> {"none", "stream", "refresh", "over"}]
         /\ loads \subseteq Loads /\ loaded \in Nat
         /\ (status \in {"ready", "streaming"} \/ isStreaming) => session # None
         /\ \A t \in TuiTurns : stage[t] = "stream" => session # None /\ Started(t)
  BY Zenon DEF ClientInv, ClientShape, ClientTurns

\* A step of the daemon or of another client.
LEMMA ClientAside ==
  ASSUME ClientInv, calm' \in BOOLEAN,
         UNCHANGED <<alive, session, transcript, isStreaming, status, abortRef, stage, loads, loaded, heard>>,
         \A t \in Turns : Started(t) => Started(t)'
  PROVE  ClientInv'
<1>1. \A t \in TuiTurns : Started(t) => Started(t)'
  BY TuiAssumption
<1>2. loads' \subseteq loads
  OBVIOUS
<1> QED
  BY <1>1, <1>2, ClientParts, ClientKept

LEMMA DaemonStepInv ==
  ASSUME ChatInv, ClientInv, DaemonStep
  PROVE  ChatInv' /\ ClientInv'
<1>1. PICK t \in Turns : Progress(t)
  BY DEF DaemonStep
<1>2. UNCHANGED tuiVars
  BY DEF DaemonStep
<1>3. ChatInv'
  BY <1>1, AppendUserInv, CallModelInv, ModelEventInv, PersistNextInv, CloseStreamInv DEF Progress
<1>4. phase' = phase \/ \E p \in {"appended", "streaming", "done"} : phase' = [phase EXCEPT ![t] = p]
  BY <1>1 DEF Progress, AppendUser, CallModel, ModelEvent, PersistNext, CloseStream
<1>5. \A u \in Turns : Started(u) => Started(u)'
  BY <1>4 DEF ChatInv, Shape, Started
<1>6. calm' \in BOOLEAN
  BY <1>2, ClientParts, Zenon DEF tuiVars
<1>7. ClientInv'
  BY <1>2, <1>5, <1>6, ClientAside DEF tuiVars
<1> QED
  BY <1>3, <1>7

LEMMA OthersStepInv ==
  ASSUME ChatInv, ClientInv, OthersStep
  PROVE  ChatInv' /\ ClientInv'
<1>0. Shape
  BY DEF ChatInv
<1>1. UNCHANGED <<alive, session, transcript, isStreaming, status, abortRef, stage, loads, loaded, heard>>
  BY DEF OthersStep
<1>2. calm' \in BOOLEAN
  BY ClientParts, Zenon DEF OthersStep
<1>3. ASSUME NEW t \in Turns, StandStill(t) PROVE ChatInv' /\ \A u \in Turns : Started(u) => Started(u)'
  BY <1>0, <1>3, StandStillInv DEF StandStill, Shape, Started
<1>4. ASSUME NEW t \in Turns, NEW s \in Sessions, Begin(t, s)
      PROVE  ChatInv' /\ \A u \in Turns : Started(u) => Started(u)'
  BY <1>0, <1>4, BeginInv DEF Begin, Shape, Started
<1>5. ASSUME UNCHANGED <<exists, rows, phase, sess, answer, at, saved, crashes, disturbed>>,
             out' \in [Turns -> Seq(Chunks)]
      PROVE  ChatInv' /\ \A u \in Turns : Started(u) => Started(u)'
  BY <1>5, QuietOut, QuietInv
<1>6. ASSUME NEW t \in Turns, HangUp({t}) \/ (out[t] # <<>> /\ out' = [out EXCEPT ![t] = Tail(@)])
      PROVE  out' \in [Turns -> Seq(Chunks)]
  BY <1>0, <1>6, HangUpTyped, TakeTyped
<1>7. \/ \E t \in Turns : StandStill(t)
      \/ \E t \in Turns, s \in Sessions : Begin(t, s)
      \/ /\ \E t \in Turns : HangUp({t}) \/ (out[t] # <<>> /\ out' = [out EXCEPT ![t] = Tail(@)])
         /\ UNCHANGED <<exists, rows, phase, sess, answer, at, saved, crashes, disturbed>>
  BY DEF OthersStep
<1>8. ChatInv' /\ \A u \in Turns : Started(u) => Started(u)'
  BY <1>3, <1>4, <1>5, <1>6, <1>7
<1> QED
  BY <1>1, <1>2, <1>8, ClientAside

LEMMA DaemonCrashInv ==
  ASSUME ChatInv, ClientInv, DaemonCrash
  PROVE  ChatInv' /\ ClientInv'
<1>1. Crash /\ calm' = FALSE
      /\ UNCHANGED <<alive, session, transcript, isStreaming, status, abortRef, stage, loads, loaded, heard>>
  BY DEF DaemonCrash
<1>2. \A u \in Turns : Started(u) => Started(u)'
  BY <1>1 DEF Crash, Started
<1> QED
  BY <1>1, <1>2, CrashInv, ClientAside


\* A step of the client that leaves the daemon alone, or only closes connections.
LEMMA ClientOnly ==
  ASSUME ChatInv, Quiet
  PROVE  ChatInv' /\ \A t \in TuiTurns : Started(t)' <=> Started(t)
<1>1. \A t \in Turns : Started(t)' <=> Started(t)
  BY DEF Quiet, Started
<1> QED
  BY <1>1, QuietInv, TuiAssumption

LEMMA LoadStepInv ==
  ASSUME ChatInv, ClientInv, LoadStep
  PROVE  ChatInv' /\ ClientInv'
<1>0. UNCHANGED chatVars
  BY DEF LoadStep, LoadRead, LoadDone, LoadFails
<1>1. ChatInv' /\ \A t \in TuiTurns : Started(t)' <=> Started(t)
  BY <1>0, QuietAll, ClientOnly
<1>2. PICK l \in loads : LoadRead(l) \/ LoadDone(l) \/ LoadFails(l)
  BY DEF LoadStep
<1>3. l \in Loads /\ l.session \in Sessions /\ l.session # None /\ l.turn \in TuiTurns \cup {None}
  BY <1>2, ClientParts, ChatAssumption DEF Loads
<1>4. CASE LoadRead(l)
  <2> DEFINE m == [l EXCEPT !.got = TRUE, !.rows = rows[l.session]]
  <2>1. loads' = (loads \ {l}) \cup {m} /\ loaded' = loaded
        /\ UNCHANGED <<alive, session, transcript, isStreaming, status, abortRef, stage, calm>>
    BY <1>4 DEF LoadRead
  <2>2. rows[l.session] \in Seq(Rows)
    BY <1>3, SessionTypes DEF ChatInv
  <2>3. m \in Loads /\ m.n = l.n
    BY <1>3, <2>2 DEF Loads
  <2> HIDE DEF m
  <2>4. loads' \subseteq Loads /\ \A k \in loads' : k.n < loaded'
    BY <1>2, <2>1, <2>3 DEF ClientInv, ClientShape, ClientTurns
  <2>5. ClientShape'
    BY <2>1, <2>4 DEF ClientInv, ClientShape
  <2>6. ClientTurns'
    BY <1>1, <2>1, <2>4 DEF ClientInv, ClientTurns
  <2> QED
    BY <1>1, <2>5, <2>6 DEF ClientInv
<1>5. CASE LoadDone(l)
  <2>1. /\ loads' \subseteq loads /\ loaded' = loaded /\ session' = l.session /\ SendEnds(l.turn)
        /\ isStreaming' = FALSE /\ status' = "ready" /\ UNCHANGED <<alive, calm>>
    BY <1>5 DEF LoadDone
  <2>2. /\ abortRef' \in TuiTurns \cup {None}
        /\ stage' \in [TuiTurns -> {"none", "stream", "refresh", "over"}]
        /\ \A u \in TuiTurns : stage'[u] = "stream" => stage[u] = "stream"
    BY <1>3, <2>1, SendEndsTyped
  <2>3. isStreaming' \in BOOLEAN /\ alive' \in BOOLEAN /\ calm' \in BOOLEAN
    BY <2>1, ClientParts, Zenon
  <2>4. session' \in Sessions \cup {None} /\ session' # None
    BY <1>3, <2>1
  <2>5. \A t \in TuiTurns : stage'[t] = "stream" => session' # None /\ Started(t)'
    BY <1>1, <2>2, <2>4, ClientParts
  <2> QED
    BY <1>1, <2>1, <2>2, <2>3, <2>4, <2>5, ClientKept
<1>6. CASE LoadFails(l)
  <2>1. /\ loads' \subseteq loads /\ loaded' = loaded /\ session' = session /\ SendEnds(l.turn)
        /\ isStreaming' = isStreaming /\ status' = "error" /\ alive' = alive /\ calm' = FALSE
    BY <1>6 DEF LoadFails
  <2>2. /\ abortRef' \in TuiTurns \cup {None}
        /\ stage' \in [TuiTurns -> {"none", "stream", "refresh", "over"}]
        /\ \A u \in TuiTurns : stage'[u] = "stream" => stage[u] = "stream"
    BY <1>3, <2>1, SendEndsTyped
  <2>3. isStreaming' \in BOOLEAN /\ alive' \in BOOLEAN /\ calm' \in BOOLEAN
    BY <2>1, ClientParts, Zenon
  <2>4. \A t \in TuiTurns : stage'[t] = "stream" => session' # None /\ Started(t)'
    BY <1>1, <2>1, <2>2, ClientParts
  <2>5. session' \in Sessions \cup {None} /\ ((status' \in {"ready", "streaming"} \/ isStreaming') => session' # None)
    BY <2>1, ClientParts
  <2> QED
    BY <1>1, <2>1, <2>2, <2>3, <2>4, <2>5, ClientKept
<1> QED
  BY <1>2, <1>4, <1>5, <1>6

LEMMA ChunkArrivesInv ==
  ASSUME ChatInv, ClientInv, NEW t \in TuiTurns, ChunkArrives(t)
  PROVE  ChatInv' /\ ClientInv'
<1> DEFINE e == Head(out[t])
<1>0. /\ stage[t] = "stream" /\ out[t] # <<>> /\ e \notin {"end", "cut"} /\ Reduce(t, e)
      /\ out' = [out EXCEPT ![t] = Tail(@)]
      /\ UNCHANGED <<exists, rows, phase, sess, answer, at, saved, crashes, disturbed>>
      /\ UNCHANGED <<alive, session, abortRef, stage, loads, loaded, calm>>
  BY DEF ChunkArrives
<1>1. out' \in [Turns -> Seq(Chunks)] /\ e \in Chunks
  BY <1>0, TakeTyped, TuiAssumption DEF ChatInv
<1>2. ChatInv' /\ \A u \in TuiTurns : Started(u)' <=> Started(u)
  BY <1>0, <1>1, QuietOut, ClientOnly
<1>3. e \in {"text", "call", "result", "finish", "error"}
  BY <1>0, <1>1 DEF Chunks
<1> HIDE DEF e
<1>4. \/ isStreaming' = isStreaming /\ status' = status
      \/ isStreaming' = FALSE /\ status' \in {"ready", "error"}
  <2>1. CASE e = "text"
    BY <1>0, <2>1 DEF Reduce
  <2>2. CASE e \in {"call", "result"}
    BY <1>0, <2>2 DEF Reduce
  <2>3. CASE e = "finish"
    BY <1>0, <2>3 DEF Reduce
  <2>4. CASE e = "error"
    BY <1>0, <2>4 DEF Reduce
  <2> QED
    BY <1>3, <2>1, <2>2, <2>3, <2>4
<1>5. session # None
  BY <1>0, ClientParts
<1>6. isStreaming' \in BOOLEAN
  BY <1>4, ClientParts, Zenon
<1>7. alive' \in BOOLEAN /\ calm' \in BOOLEAN
  BY <1>0, ClientParts, Zenon
<1>8. status' \in {"initializing", "ready", "streaming", "error"}
  BY <1>4, ClientParts
<1>9. ClientInv'
  BY <1>0, <1>2, <1>5, <1>6, <1>7, <1>8, ClientParts, ClientKept
<1> QED
  BY <1>2, <1>9

\* The stream of turn t is over: it waits for its refresh, or has ended.
LEMMA StreamResolvesInv ==
  ASSUME ChatInv, ClientInv, NEW t \in TuiTurns, StreamResolves(t)
  PROVE  ChatInv' /\ ClientInv'
<1>0. /\ stage[t] = "stream" /\ HangUp({t}) /\ stage' = [stage EXCEPT ![t] = "refresh"]
      /\ StartLoad("refresh", t, sess[t])
      /\ UNCHANGED <<exists, rows, phase, sess, answer, at, saved, crashes, disturbed>>
      /\ UNCHANGED <<alive, session, transcript, isStreaming, status, abortRef, calm, heard>>
  BY DEF StreamResolves
<1>1. out' \in [Turns -> Seq(Chunks)]
  BY <1>0, HangUpTyped DEF ChatInv
<1>2. ChatInv' /\ \A u \in TuiTurns : Started(u)' <=> Started(u)
  BY <1>0, <1>1, QuietOut, ClientOnly
<1>3. sess[t] \in Sessions
  BY <1>0, ClientParts, InvParts, SessionOf, TuiAssumption
<1>4. loads' \subseteq Loads /\ loaded' \in Nat /\ \A l \in loads' : l.n < loaded'
  BY <1>0, <1>3, StartLoadTyped
<1>5. stage \in [TuiTurns -> {"none", "stream", "refresh", "over"}]
  BY ClientParts
<1>6. /\ stage' \in [TuiTurns -> {"none", "stream", "refresh", "over"}]
      /\ \A u \in TuiTurns : stage'[u] = "stream" => stage[u] = "stream"
  BY <1>0, <1>5
<1>7. ClientShape'
  BY <1>0, <1>4, <1>6 DEF ClientInv, ClientShape
<1>8. ClientTurns'
  BY <1>0, <1>2, <1>4, <1>6 DEF ClientInv, ClientTurns
<1> QED
  BY <1>2, <1>7, <1>8 DEF ClientInv

LEMMA SendOverInv ==
  ASSUME ChatInv, ClientInv, NEW t \in TuiTurns, StreamRejects(t) \/ InterruptTurn(t)
  PROVE  ChatInv' /\ ClientInv'
<1>0. /\ stage[t] = "stream" /\ HangUp({t}) /\ SendEnds(t) /\ calm' = FALSE
      /\ status' \in {"ready", "error"}
      /\ UNCHANGED <<exists, rows, phase, sess, answer, at, saved, crashes, disturbed>>
      /\ UNCHANGED <<alive, session, transcript, isStreaming, loads, loaded, heard>>
  BY DEF StreamRejects, InterruptTurn
<1>1. out' \in [Turns -> Seq(Chunks)]
  BY <1>0, HangUpTyped DEF ChatInv
<1>2. ChatInv' /\ \A u \in TuiTurns : Started(u)' <=> Started(u)
  BY <1>0, <1>1, QuietOut, ClientOnly
<1>3. /\ abortRef' \in TuiTurns \cup {None}
      /\ stage' \in [TuiTurns -> {"none", "stream", "refresh", "over"}]
      /\ \A u \in TuiTurns : stage'[u] = "stream" => stage[u] = "stream"
  BY <1>0, SendEndsTyped
<1>4. session # None
  BY <1>0, ClientParts
<1>5. alive' \in BOOLEAN /\ calm' \in BOOLEAN /\ isStreaming' \in BOOLEAN
  BY <1>0, ClientParts, Zenon
<1>6. loads' \subseteq loads
  BY <1>0
<1>7. ClientInv'
  BY <1>0, <1>2, <1>3, <1>4, <1>5, <1>6, ClientParts, ClientKept
<1> QED
  BY <1>2, <1>7

LEMMA SendMessageInv ==
  ASSUME ChatInv, ClientInv, NEW t \in TuiTurns, SendMessage(t)
  PROVE  ChatInv' /\ ClientInv'
<1>0. /\ session # None /\ Begin(t, session) /\ isStreaming' = TRUE /\ status' = "streaming"
      /\ abortRef' = t /\ stage' = [stage EXCEPT ![t] = "stream"] /\ calm' = (calm /\ ~Waiting)
      /\ UNCHANGED <<alive, session, loads, loaded>>
  BY DEF SendMessage
<1>1. session \in Sessions /\ t \in Turns
  BY <1>0, ClientParts, TuiAssumption
<1>2. ChatInv'
  BY <1>0, <1>1, BeginInv
<1>3. \A u \in Turns : (Started(u) => Started(u)') /\ Started(t)'
  BY <1>0, <1>1 DEF ChatInv, Shape, Begin, Started
<1>4. stage \in [TuiTurns -> {"none", "stream", "refresh", "over"}]
  BY ClientParts
<1>5. /\ stage' \in [TuiTurns -> {"none", "stream", "refresh", "over"}]
      /\ \A u \in TuiTurns : stage'[u] = "stream" => stage[u] = "stream" \/ u = t
  BY <1>0, <1>4
<1>6. alive' \in BOOLEAN /\ calm' \in BOOLEAN /\ isStreaming' \in BOOLEAN
  BY <1>0, ClientParts, Zenon
<1>7. \A u \in TuiTurns : (Started(u) => Started(u)') /\ (stage'[u] = "stream" => session' # None /\ Started(u)')
  BY <1>0, <1>3, <1>5, ClientParts, TuiAssumption
<1>8. loads' \subseteq loads
  BY <1>0
<1>9. session' \in Sessions \cup {None} /\ session' # None
  BY <1>0, <1>1
<1>10. ClientInv'
  BY <1>0, <1>5, <1>6, <1>7, <1>8, <1>9, ClientKept
<1> QED
  BY <1>2, <1>10

\* A load is under way, and nothing else is new.
LEMMA LoadStarted ==
  ASSUME ClientInv, NEW why \in {"boot", "refresh", "switch"}, NEW s \in Sessions,
         StartLoad(why, None, s), calm' \in BOOLEAN,
         UNCHANGED <<alive, session, transcript, isStreaming, status, abortRef, stage, heard>>,
         \A t \in TuiTurns : Started(t)' <=> Started(t)
  PROVE  ClientInv'
<1>1. loads' \subseteq Loads /\ loaded' \in Nat /\ \A l \in loads' : l.n < loaded'
  BY StartLoadTyped
<1>2. ClientShape'
  BY <1>1 DEF ClientInv, ClientShape
<1>3. ClientTurns'
  BY <1>1 DEF ClientInv, ClientTurns
<1> QED
  BY <1>2, <1>3 DEF ClientInv

LEMMA BootstrapInv ==
  ASSUME ChatInv, ClientInv, NEW s \in Sessions, Bootstrap(s)
  PROVE  ChatInv' /\ ClientInv'
<1>1. Quiet
  BY DEF Bootstrap, Quiet, ChatInv, Shape
<1>2. ChatInv' /\ \A u \in TuiTurns : Started(u)' <=> Started(u)
  BY <1>1, ClientOnly
<1>3. calm' \in BOOLEAN
  BY ClientParts, Zenon DEF Bootstrap
<1>4. ClientInv'
  BY <1>2, <1>3, LoadStarted DEF Bootstrap
<1> QED
  BY <1>2, <1>4

LEMMA SwitchInv ==
  ASSUME ChatInv, ClientInv, NEW s \in Sessions, SwitchToSession(s)
  PROVE  ChatInv' /\ ClientInv'
<1>1. UNCHANGED chatVars
  BY DEF SwitchToSession
<1>2. ChatInv' /\ \A u \in TuiTurns : Started(u)' <=> Started(u)
  BY <1>1, QuietAll, ClientOnly
<1>3. calm' \in BOOLEAN
  BY ClientParts, Zenon DEF SwitchToSession
<1>4. ClientInv'
  BY <1>2, <1>3, LoadStarted DEF SwitchToSession
<1> QED
  BY <1>2, <1>4

LEMMA ExitInv ==
  ASSUME ChatInv, ClientInv, Exit
  PROVE  ChatInv' /\ ClientInv'
<1>0. /\ alive' = FALSE /\ loads' = {}
      /\ stage' = [t \in TuiTurns |-> "over"] /\ abortRef' = None
      /\ UNCHANGED <<exists, rows, phase, sess, answer, at, saved, crashes, disturbed>>
      /\ UNCHANGED <<session, transcript, isStreaming, status, loaded, calm, heard>>
  BY DEF Exit
<1>1. out' \in [Turns -> Seq(Chunks)]
  <2>1. CASE HangUp(TuiTurns)
    BY <2>1, HangUpTyped DEF ChatInv
  <2>2. CASE UNCHANGED <<listening, out>>
    BY <2>2 DEF ChatInv, Shape
  <2> QED
    BY <2>1, <2>2 DEF Exit
<1>2. ChatInv' /\ \A u \in TuiTurns : Started(u)' <=> Started(u)
  BY <1>0, <1>1, QuietOut, ClientOnly
<1>3. alive' \in BOOLEAN /\ calm' \in BOOLEAN /\ isStreaming' \in BOOLEAN
  BY <1>0, ClientParts, Zenon
<1>4. stage' \in [TuiTurns -> {"none", "stream", "refresh", "over"}]
      /\ \A t \in TuiTurns : stage'[t] # "stream"
  BY <1>0
<1>5. ClientInv'
  BY <1>0, <1>2, <1>3, <1>4, ClientParts, ClientKept
<1> QED
  BY <1>2, <1>5

-----------------------------------------------------------------------------
(* The invariant holds. *)

LEMMA InitInv ==
  ASSUME TuiInit
  PROVE  ChatInv /\ ClientInv
<1>1. /\ exists \subseteq Sessions /\ rows = [s \in Sessions |-> <<>>]
      /\ phase = [t \in Turns |-> "idle"] /\ sess = [t \in Turns |-> None]
      /\ answer = [t \in Turns |-> <<>>] /\ at = [t \in Turns |-> 0] /\ saved = [t \in Turns |-> 0]
      /\ out = [t \in Turns |-> <<>>] /\ crashes = 0 /\ disturbed = {}
  BY DEF TuiInit, ChatInit
<1>2. Shape
  BY <1>1, ChatAssumption DEF Shape
<1>3. ASSUME NEW t \in Turns PROVE Local(t) /\ ~Started(t) /\ ~InCall(t) /\ ~HalfStored(t)
  <2>1. MessagesOf(t) = <<>> /\ Len(<<>>) = 0
    BY <1>1, NothingAnswered, OfAnswer
  <2> QED
    BY <1>1, <2>1 DEF Local, Started, InCall, HalfStored
<1>4. ASSUME NEW s \in Sessions PROVE Placed(s) /\ Unbroken(s)
  <2>1. rows[s] = <<>>
    BY <1>1
  <2> QED
    BY <1>3, <2>1 DEF Placed, Unbroken
<1>5. ChatInv
  BY <1>2, <1>3, <1>4 DEF ChatInv
<1>6. ClientInv
  BY DEF TuiInit, ClientInv, ClientShape, ClientTurns
<1> QED
  BY <1>5, <1>6

LEMMA NextInv ==
  ASSUME ChatInv, ClientInv, [TuiNext]_allVars
  PROVE  ChatInv' /\ ClientInv'
<1>1. CASE DaemonStep
  BY <1>1, DaemonStepInv
<1>2. CASE OthersStep
  BY <1>2, OthersStepInv
<1>3. CASE DaemonCrash
  BY <1>3, DaemonCrashInv
<1>4. CASE LoadStep
  BY <1>4, LoadStepInv
<1>5. CASE TurnStep
  BY <1>5, ChunkArrivesInv, StreamResolvesInv, SendOverInv DEF TurnStep
<1>6. CASE UserStep
  BY <1>6, BootstrapInv, SwitchInv, SendMessageInv, SendOverInv, ExitInv DEF UserStep
<1>7. CASE UNCHANGED allVars
  <2>1. UNCHANGED chatVars /\ UNCHANGED tuiVars
    BY <1>7 DEF allVars
  <2>2. ChatInv' /\ \A u \in Turns : Started(u) => Started(u)'
    BY <2>1, QuietAll, QuietInv
  <2>3. calm' \in BOOLEAN
    BY <2>1, ClientParts, Zenon DEF tuiVars
  <2> QED
    BY <2>1, <2>2, <2>3, ClientAside DEF tuiVars
<1> QED
  BY <1>1, <1>2, <1>3, <1>4, <1>5, <1>6, <1>7 DEF TuiNext

LEMMA Invariant ==
  TuiSpec => [](ChatInv /\ ClientInv)
<1>1. TuiInit => ChatInv /\ ClientInv
  BY InitInv
<1>2. ChatInv /\ ClientInv /\ [TuiNext]_allVars => (ChatInv /\ ClientInv)'
  BY NextInv
<1> QED
  BY <1>1, <1>2, PTL DEF TuiSpec


-----------------------------------------------------------------------------
(* What follows. *)

\* The state of the daemon's chat and of the client stays in its ranges: every
\* row is of a turn of its session and of a session that is there, and the
\* client is on a session whenever it shows one (tui/state.ts, chat-store.ts).
THEOREM TuiTyped == TuiSpec => []TuiTypeOK
<1>1. ASSUME ChatInv PROVE ChatTypeOK
  <2>0. Shape
    BY <1>1 DEF ChatInv
  <2>1. ASSUME NEW s \in Sessions
        PROVE  /\ \A r \in Range(rows[s]) : r.turn \in Turns /\ sess[r.turn] = s
               /\ rows[s] # <<>> => s \in exists
    BY <1>1, <2>0, SessionTypes DEF ChatInv, Placed, Range
  <2>2. ASSUME NEW t \in Turns
        PROVE  /\ answer[t] \in Answers \cup {<<>>} /\ at[t] \in 0..Len(answer[t])
               /\ saved[t] \in 0..Len(MessagesOf(t))
    <3>1. Local(t) /\ at[t] \in Nat /\ saved[t] \in Nat /\ answer[t] \in Answers \cup {<<>>}
      BY <1>1, <2>0, TurnTypes DEF ChatInv
    <3>2. Len(answer[t]) \in Nat /\ Len(MessagesOf(t)) \in 0..3
      BY <3>1, AnswerLength, WholeParts, OfAnswer
    <3> QED
      BY <3>1, <3>2 DEF Local
  <2> QED
    BY <2>0, <2>1, <2>2 DEF Shape, ChatTypeOK
<1>2. ASSUME ClientInv
      PROVE  /\ alive \in BOOLEAN /\ isStreaming \in BOOLEAN /\ calm \in BOOLEAN
             /\ session \in Sessions \cup {None} /\ abortRef \in TuiTurns \cup {None}
             /\ status \in {"initializing", "ready", "streaming", "error"}
             /\ \A l \in loads : l.session \in Sessions /\ l.n < loaded
             /\ status # "initializing" /\ status # "error" => session # None
  <2>1. \A l \in loads : l.session \in Sessions /\ l.n < loaded
    BY <1>2 DEF ClientInv, ClientShape, ClientTurns, Loads
  <2>2. status # "initializing" /\ status # "error" => session # None
    BY <1>2, ClientParts
  <2> QED
    BY <1>2, <2>1, <2>2, ClientParts, Zenon
<1>3. ChatInv /\ ClientInv => TuiTypeOK
  BY <1>1, <1>2, Zenon DEF TuiTypeOK
<1> QED
  BY <1>3, Invariant, PTL

LEMMA RowsInOrder ==
  ASSUME ChatInv, NEW t \in Turns, phase[t] # "idle"
  PROVE  LET rs == rows[sess[t]]
             stored == {rs[i] : i \in OfTurn(t)}
             whole == Whole(t)
         IN  /\ stored \subseteq Range(whole)
             /\ \A i, j \in OfTurn(t) : \A k, m \in DOMAIN whole :
                  i < j /\ rs[i] = whole[k] /\ rs[j] = whole[m] => k < m
             /\ \A k, m \in DOMAIN whole : k < m /\ whole[m] \in stored => whole[k] \in stored
             /\ phase[t] = "done" /\ crashes = 0 => Range(whole) \subseteq stored
<1> DEFINE rs == rows[sess[t]]  w == Whole(t)  stored == {rs[i] : i \in OfTurn(t)}
<1>0. Shape /\ Stored(t)
  BY InvParts DEF Started
<1>1. w \in Seq(Rows) /\ (\A k \in DOMAIN w : w[k].turn = t) /\ DOMAIN w = 1..Len(w) /\ Len(w) \in Nat
      /\ \A k, m \in DOMAIN w : w[k] = w[m] => k = m
  BY WholeParts, OfAnswer DEF RowsOf, Distinct
<1>2. PICK n \in 0..Len(w) : Holds(rs, t, w, n) /\ (phase[t] = "done" /\ crashes = 0 => n = Len(w))
  BY <1>0 DEF Stored
<1>3. OfTurn(t) = {i \in DOMAIN rs : rs[i].turn = t}
  BY DEF OfTurn
<1> HIDE DEF rs, w
<1>4. 1..n \subseteq DOMAIN w /\ \A k, m \in DOMAIN w : k < m /\ m \in 1..n => k \in 1..n
  BY <1>1
<1>5. \A i \in OfTurn(t) : i \in DOMAIN rs /\ \E k \in 1..n : rs[i] = w[k]
  BY <1>2, <1>3 DEF Holds
<1>6. \A i \in OfTurn(t), k \in DOMAIN w : rs[i] = w[k] => k \in 1..n
  BY <1>1, <1>4, <1>5
<1>7. \A k \in 1..n : w[k] \in stored
  <2>1. ASSUME NEW k \in 1..n PROVE \E i \in OfTurn(t) : rs[i] = w[k]
    <3>1. PICK i \in DOMAIN rs : rs[i] = w[k]
      BY <1>2 DEF Holds
    <3>2. w[k].turn = t
      BY <1>1, <1>4
    <3> QED
      BY <1>3, <3>1, <3>2
  <2> QED
    BY <2>1
<1>8. stored \subseteq Range(w)
  BY <1>4, <1>5 DEF Range
<1>9. \A i, j \in OfTurn(t) : \A k, m \in DOMAIN w :
        i < j /\ rs[i] = w[k] /\ rs[j] = w[m] => k < m
  BY <1>2, <1>5, <1>6 DEF Holds
<1>10. \A k, m \in DOMAIN w : k < m /\ w[m] \in stored => w[k] \in stored
  BY <1>4, <1>6, <1>7
<1>11. phase[t] = "done" /\ crashes = 0 => Range(w) \subseteq stored
  BY <1>1, <1>2, <1>7 DEF Range
<1> QED
  BY <1>8, <1>9, <1>10, <1>11 DEF rs, w

\* Whatever other turns, hang-ups and crashes come in between, a turn leaves in
\* its session a beginning of what it may leave, in order and once, and all of
\* it when its stream was closed (agent/chat-loop.ts:53).
THEOREM TurnRowsStayInOrder == TuiSpec => []TurnRowsInOrder
<1>1. ChatInv => TurnRowsInOrder
  BY RowsInOrder DEF TurnRowsInOrder
<1> QED
  BY <1>1, Invariant, PTL

\* The caller of the model in an undisturbed session finds every call answered.
LEMMA CallerFindsAnswers ==
  ASSUME ChatInv, NEW t \in Turns, phase[t] = "appended", sess[t] \notin disturbed
  PROVE  CallsAnswered(sess[t])
<1>1. PICK s \in Sessions \ disturbed : s = sess[t]
  BY InvParts, SessionOf DEF Started
<1>2. Shape /\ Unbroken(s) /\ Placed(s)
  BY DEF ChatInv
<1> DEFINE rs == rows[s]
<1>3. /\ Len(rs) \in Nat /\ DOMAIN rs = 1..Len(rs)
      /\ \A i \in DOMAIN rs : rs[i].turn \in Turns /\ sess[rs[i].turn] = s
  BY <1>2, SessionTypes DEF Placed
<1>4. \A u \in Turns : ~(HalfStored(u) /\ sess[u] = s)
  BY <1>1, <1>2 DEF Unbroken, HalfStored, InCall
<1>5. ASSUME NEW i \in DOMAIN rs, rs[i].part = "call"
      PROVE  /\ i + 1 \in Complete(s) /\ Before(s, i, i + 1)
             /\ rs[i + 1].part = "result" /\ rs[i + 1].turn = rs[i].turn
  <2>1. i < Len(rs) /\ rs[i + 1] = ResultRow(rs[i].turn)
    BY <1>2, <1>3, <1>4, <1>5 DEF Unbroken
  <2>2. i + 1 \in DOMAIN rs /\ i < i + 1 /\ \A k \in DOMAIN rs : ~(i < k /\ k < i + 1)
    BY <1>3, <2>1
  <2>3. /\ ResultRow(rs[i].turn).status = "complete" /\ ResultRow(rs[i].turn).part = "result"
        /\ ResultRow(rs[i].turn).turn = rs[i].turn
    BY DEF ResultRow, Row
  <2> QED
    BY <2>1, <2>2, <2>3 DEF Complete, Before
<1>6. ASSUME NEW j \in DOMAIN rs, rs[j].part = "result"
      PROVE  /\ j - 1 \in Complete(s) /\ Before(s, j - 1, j)
             /\ rs[j - 1].part = "call" /\ rs[j - 1].turn = rs[j].turn
  <2>1. j > 1 /\ rs[j - 1] = CallRow(rs[j].turn)
    BY <1>2, <1>6 DEF Unbroken
  <2>2. j - 1 \in DOMAIN rs /\ j - 1 < j /\ \A k \in DOMAIN rs : ~(j - 1 < k /\ k < j)
    BY <1>3, <2>1
  <2>3. /\ CallRow(rs[j].turn).status = "complete" /\ CallRow(rs[j].turn).part = "call"
        /\ CallRow(rs[j].turn).turn = rs[j].turn
    BY DEF CallRow, Row
  <2> QED
    BY <2>1, <2>2, <2>3 DEF Complete, Before
<1>7. Complete(s) \subseteq DOMAIN rs
  BY DEF Complete
<1>8. CallsAnswered(s)
  BY <1>5, <1>6, <1>7 DEF CallsAnswered
<1> QED
  BY <1>1, <1>8

\* The history a turn hands to the model has every tool call directly followed
\* by its result, unless turns of the session overlapped or the daemon died in
\* one of them (agent/chat-history.ts:91).
THEOREM HistoriesWellFormed == TuiSpec => HistoryWellFormed
<1>1. ChatInv => \A t \in Turns : phase[t] = "appended" /\ phase'[t] = "streaming" =>
                   CallsAnswered(sess[t]) \/ sess[t] \in disturbed
  BY CallerFindsAnswers
<1>2. ChatInv => [\A t \in Turns : phase[t] = "appended" /\ phase'[t] = "streaming" =>
                   CallsAnswered(sess[t]) \/ sess[t] \in disturbed]_chatVars
  BY <1>1
<1> QED
  BY <1>2, Invariant, PTL DEF HistoryWellFormed

-----------------------------------------------------------------------------
(* The screen of a calm user. *)

\* The answers a screen can show so far, and an entry of the transcript es.
Words(k) == CASE k = 0 -> <<>>
              [] k = 1 -> <<"text">>
              [] k = 2 -> <<"text", "text">>
              [] k = 3 -> <<"text", "call">>
              [] k = 4 -> <<"text", "call", "result">>
              [] k = 5 -> <<"text", "call", "result", "text">>
Block(es, i, t, role, parts) ==
  es[i].role = role /\ es[i].live /\ es[i].turn = t /\ es[i].parts = parts

\* Entry m is the message of the turn, what is before it comes from the store.
Top(es, m) == es[m].live /\ es[m].role = "user" /\ \A i \in DOMAIN es : i < m => ~es[i].live

\* Below it: one entry per text before or after the tool, one for the tool.
Height(k) == IF k = 0 THEN 0 ELSE IF k < 3 THEN 1 ELSE IF k < 5 THEN 2 ELSE 3
Laid(es, m, t, k) ==
  /\ Len(es) = m + Height(k)
  /\ k \in {1, 2} => Block(es, m + 1, t, "assistant", Words(k))
  /\ k \in {3, 4, 5} => Block(es, m + 1, t, "assistant", <<"text">>)
  /\ k = 3 => Block(es, m + 2, t, "tool", <<"call">>)
  /\ k \in {4, 5} => Block(es, m + 2, t, "tool", <<"call", "result">>)
  /\ k = 5 => Block(es, m + 3, t, "assistant", <<"text">>)

Entries == [role : Roles, status : Statuses \cup {"streaming"}, live : BOOLEAN, turn : Turns,
            parts : Seq(Chunks \cup Parts)]
OnTop(es, t, k) == es \in Seq(Entries) /\ \E m \in DOMAIN es : Top(es, m) /\ Laid(es, m, t, k)

\* What was heard (h) and what is under way (o) are the first n of what the
\* answer a and the end of its stream make.
Event(a, i) == IF i <= Len(a) THEN a[i] ELSE "end"
Carries(h, o, a, n) ==
  /\ h \in Seq(Chunks) /\ o \in Seq(Chunks) /\ Len(h) + Len(o) = n
  /\ \A i \in DOMAIN h : i <= Len(a) /\ h[i] = a[i]
  /\ \A i \in DOMAIN o : o[i] = Event(a, Len(h) + i)
SentSoFar(t) == IF phase[t] = "done" THEN at[t] + 1 ELSE at[t]
Fed(t) == Carries(heard, out[t], answer[t], SentSoFar(t))

Streams(t) ==
  /\ loads = {} /\ session # None /\ sess[t] = session /\ listening[t]
  /\ phase[t] \notin {"idle", "gone"}
  /\ \A u \in TuiTurns \ {t} : stage[u] \in {"none", "over"}
  /\ Fed(t)
  /\ \E k \in 0..5 : Shown(heard) = Words(k) /\ OnTop(transcript, t, k)

\* A turn that is not under way.
Resting(t) ==
  /\ stage[t] = "none" => phase[t] = "idle" /\ out[t] = <<>>
  /\ stage[t] \in {"refresh", "over"} => phase[t] = "done"
  /\ stage[t] = "refresh" => loads # {}

\* A load brings the rows of its session, which nobody changes meanwhile.
Loading(l) ==
  /\ loads = {l} /\ (l.got => l.rows = rows[l.session])
  /\ \A t \in TuiTurns : stage[t] # "stream" /\ (stage[t] = "refresh" <=> l.turn = t)

Settled == transcript = FromHistory(rows[session]) /\ ~isStreaming /\ status = "ready"

Steady ==
  /\ \A t \in Turns \ TuiTurns : phase[t] = "idle"
  /\ \A t \in TuiTurns : Resting(t) /\ (stage[t] = "stream" => Streams(t))
  /\ \A l \in loads : Loading(l)
  /\ loaded = 0 => session = None
  /\ session # None /\ ~Waiting => Settled
Connections == listening \in [Turns -> BOOLEAN]
CalmInv == Connections /\ (calm /\ alive => Steady)

-----------------------------------------------------------------------------
(* FlattenSeq of the few entries an answer takes. *)

PrefixSums(ss, f) == [i \in 1..Len(ss) |-> IF i = 1 THEN ss[i] ELSE f[i - 1] \o ss[i]]
ThreePrefixes(ss) == [i \in 1..Len(ss) |-> IF i = 1 THEN ss[1] ELSE IF i = 2 THEN ss[1] \o ss[2]
                                           ELSE (ss[1] \o ss[2]) \o ss[3]]

LEMMA SmallNumbers ==
  \A n \in 1..3 : /\ n \in Nat /\ n # 0 /\ 1 \in 1..n /\ (n > 1 => 2 \in 1..n) /\ (n > 2 => 3 \in 1..n)
                  /\ n = 1 \/ n = 2 \/ n = 3
                  /\ \A i \in 1..n : i = 1 \/ (i = 2 /\ i - 1 = 1) \/ (i = 3 /\ i - 1 = 2)
  OBVIOUS

LEMMA FlattenChosen ==
  ASSUME NEW ss, Len(ss) # 0
  PROVE  FlattenSeq(ss) = (CHOOSE f : f = PrefixSums(ss, f))[Len(ss)]
  BY DEF FlattenSeq, PrefixSums

LEMMA PrefixesExist ==
  ASSUME NEW ss, Len(ss) \in 1..3
  PROVE  ThreePrefixes(ss) = PrefixSums(ss, ThreePrefixes(ss))
<1> DEFINE n == Len(ss)  h == ThreePrefixes(ss)
<1>1. ASSUME NEW i \in 1..n
      PROVE  h[i] = IF i = 1 THEN ss[i] ELSE h[i - 1] \o ss[i]
  <2>1. i = 1 \/ (i = 2 /\ i - 1 = 1) \/ (i = 3 /\ i - 1 = 2)
    BY <1>1, SmallNumbers
  <2>2. 1 \in 1..n /\ (i = 3 => 2 \in 1..n)
    BY <1>1, SmallNumbers
  <2>3. \A j \in 1..n : h[j] = IF j = 1 THEN ss[1] ELSE IF j = 2 THEN ss[1] \o ss[2]
                                ELSE (ss[1] \o ss[2]) \o ss[3]
    BY DEF ThreePrefixes
  <2> HIDE DEF n, h
  <2>4. CASE i = 1
    BY <2>2, <2>3, <2>4
  <2>5. CASE i = 2 /\ i - 1 = 1
    BY <1>1, <2>2, <2>3, <2>5
  <2>6. CASE i = 3 /\ i - 1 = 2
    <3>0. /\ h[2] = IF 2 = 1 THEN ss[1] ELSE IF 2 = 2 THEN ss[1] \o ss[2]
                    ELSE (ss[1] \o ss[2]) \o ss[3]
          /\ h[3] = IF 3 = 1 THEN ss[1] ELSE IF 3 = 2 THEN ss[1] \o ss[2]
                    ELSE (ss[1] \o ss[2]) \o ss[3]
      BY <1>1, <2>2, <2>3, <2>6, Zenon
    <3>1. h[2] = ss[1] \o ss[2] /\ h[3] = (ss[1] \o ss[2]) \o ss[3]
      BY <3>0
    <3>2. h[i] = h[3] /\ h[i - 1] = h[2] /\ ss[i] = ss[3] /\ i # 1
      BY <2>6
    <3> QED
      BY <3>1, <3>2, Zenon
  <2> QED
    BY <2>1, <2>4, <2>5, <2>6
<1>2. h = [i \in 1..n |-> h[i]]
  BY DEF ThreePrefixes
<1> HIDE DEF h
<1>3. PrefixSums(ss, h) = [i \in 1..n |-> h[i]]
  BY <1>1 DEF PrefixSums
<1> QED
  BY <1>2, <1>3 DEF h

LEMMA PrefixValues ==
  ASSUME NEW ss, Len(ss) \in 1..3, NEW f, f = PrefixSums(ss, f)
  PROVE  /\ Len(ss) = 1 => f[1] = ss[1]
         /\ Len(ss) = 2 => f[2] = ss[1] \o ss[2]
         /\ Len(ss) = 3 => f[3] = (ss[1] \o ss[2]) \o ss[3]
<1> DEFINE n == Len(ss)
<1>1. \A i \in 1..n : f[i] = IF i = 1 THEN ss[i] ELSE f[i - 1] \o ss[i]
  <2>1. \A g : g = PrefixSums(ss, f) =>
          \A i \in 1..n : g[i] = IF i = 1 THEN ss[i] ELSE f[i - 1] \o ss[i]
    BY DEF PrefixSums
  <2> QED
    BY <2>1
<1>2. 1 \in 1..n /\ (n > 1 => 2 \in 1..n) /\ (n > 2 => 3 \in 1..n) /\ 2 - 1 = 1 /\ 3 - 1 = 2
      /\ (n = 2 => n > 1) /\ (n = 3 => n > 1 /\ n > 2)
  BY SmallNumbers
<1> HIDE DEF n
<1>3. f[1] = ss[1]
  BY <1>1, <1>2
<1>4. ASSUME n > 1 PROVE f[2] = f[1] \o ss[2]
  <2>1. f[2] = IF 2 = 1 THEN ss[2] ELSE f[2 - 1] \o ss[2]
    BY <1>1, <1>2, <1>4, Zenon
  <2> QED
    BY <2>1
<1>5. ASSUME n > 2 PROVE f[3] = f[2] \o ss[3]
  <2>1. f[3] = IF 3 = 1 THEN ss[3] ELSE f[3 - 1] \o ss[3]
    BY <1>1, <1>2, <1>5, Zenon
  <2> QED
    BY <2>1
<1> QED
  BY <1>2, <1>3, <1>4, <1>5 DEF n

LEMMA FlattenIs ==
  ASSUME NEW ss, Len(ss) \in 1..3
  PROVE  /\ Len(ss) = 1 => FlattenSeq(ss) = ss[1]
         /\ Len(ss) = 2 => FlattenSeq(ss) = ss[1] \o ss[2]
         /\ Len(ss) = 3 => FlattenSeq(ss) = (ss[1] \o ss[2]) \o ss[3]
<1> DEFINE F(f) == f = PrefixSums(ss, f)
           c == CHOOSE f : F(f)
<1>1. \E f : F(f)
  BY PrefixesExist
<1>2. F(c)
  <2> HIDE DEF F
  <2> QED
    BY <1>1
<1>3. FlattenSeq(ss) = c[Len(ss)]
  BY FlattenChosen, SmallNumbers
<1> HIDE DEF c
<1> QED
  BY <1>2, <1>3, PrefixValues

LEMMA FlattenNone == FlattenSeq(<<>>) = <<>>
  BY DEF FlattenSeq

LEMMA WordsKnown ==
  /\ Words(0) = <<>> /\ Words(1) = <<"text">> /\ Words(2) = <<"text", "text">>
  /\ Words(3) = <<"text", "call">> /\ Words(4) = <<"text", "call", "result">>
  /\ Words(5) = <<"text", "call", "result", "text">>
  BY DEF Words

LEMMA WordsJoin ==
  /\ <<"text">> \o <<"call">> = <<"text", "call">>
  /\ <<"text">> \o <<"call", "result">> = <<"text", "call", "result">>
  /\ <<"text", "call", "result">> \o <<"text">> = <<"text", "call", "result", "text">>
<1> DEFINE S == {"text", "call", "result"}
<1>1. <<"text">> \in Seq(S) /\ <<"call">> \in Seq(S) /\ <<"call", "result">> \in Seq(S)
      /\ <<"text", "call", "result">> \in Seq(S)
  OBVIOUS
<1>2. <<"text">> \o <<"call">> = <<"text", "call">>
  <2> DEFINE l == <<"text">> \o <<"call">>  m == <<"text", "call">>
  <2>1. l \in Seq(S) /\ Len(l) = 2 /\ l[1] = "text" /\ l[2] = "call"
    BY <1>1, ConcatProperties
  <2>2. m \in Seq(S) /\ Len(m) = 2 /\ m[1] = "text" /\ m[2] = "call"
    OBVIOUS
  <2> HIDE DEF l, m, S
  <2>3. \A i \in 1..2 : l[i] = m[i]
    BY <2>1, <2>2
  <2>4. l = m
    BY <2>1, <2>2, <2>3, SeqEqual
  <2> QED
    BY <2>4 DEF l, m
<1>3. <<"text">> \o <<"call", "result">> = <<"text", "call", "result">>
  <2> DEFINE l == <<"text">> \o <<"call", "result">>  m == <<"text", "call", "result">>
  <2>1. l \in Seq(S) /\ Len(l) = 3 /\ l[1] = "text" /\ l[2] = "call" /\ l[3] = "result"
    BY <1>1, ConcatProperties
  <2>2. m \in Seq(S) /\ Len(m) = 3 /\ m[1] = "text" /\ m[2] = "call" /\ m[3] = "result"
    OBVIOUS
  <2> HIDE DEF l, m, S
  <2>3. \A i \in 1..3 : l[i] = m[i]
    BY <2>1, <2>2
  <2>4. l = m
    BY <2>1, <2>2, <2>3, SeqEqual
  <2> QED
    BY <2>4 DEF l, m
<1>4. <<"text", "call", "result">> \o <<"text">> = <<"text", "call", "result", "text">>
  <2> DEFINE l == <<"text", "call", "result">> \o <<"text">>
             m == <<"text", "call", "result", "text">>
  <2>1. l \in Seq(S) /\ Len(l) = 4 /\ l[1] = "text" /\ l[2] = "call" /\ l[3] = "result"
        /\ l[4] = "text"
    BY <1>1, ConcatProperties
  <2>2. m \in Seq(S) /\ Len(m) = 4 /\ m[1] = "text" /\ m[2] = "call" /\ m[3] = "result"
        /\ m[4] = "text"
    OBVIOUS
  <2> HIDE DEF l, m, S
  <2>3. \A i \in 1..4 : l[i] = m[i]
    BY <2>1, <2>2
  <2>4. l = m
    BY <2>1, <2>2, <2>3, SeqEqual
  <2> QED
    BY <2>4 DEF l, m
<1> QED
  BY <1>2, <1>3, <1>4

LEMMA Heights ==
  \A k \in 0..5 : /\ k = 0 \/ k \in {1, 2} \/ k = 3 \/ k = 4 \/ k = 5
                  /\ Height(k) \in 0..3
                  /\ (k = 0 <=> Height(k) = 0) /\ (k \in {1, 2} <=> Height(k) = 1)
                  /\ (k \in {3, 4} <=> Height(k) = 2) /\ (k = 5 <=> Height(k) = 3)
  BY DEF Height

LEMMA Offsets ==
  \A m \in Nat, h \in 0..3 :
    /\ m + h \in Nat /\ (m + h) - m = h
    /\ \A i \in 1..(m + h) : \/ i < m \/ i = m \/ (i = m + 1 /\ h # 0)
                             \/ (i = m + 2 /\ h \in {2, 3}) \/ (i = m + 3 /\ h = 3)
    /\ \A i \in 1..h : m + i \in 1..(m + h) /\ m + i > m
  OBVIOUS

\* Entries below the message are of the answer.
LEMMA Below ==
  ASSUME NEW t, NEW k \in 0..5, NEW es \in Seq(Entries), NEW m \in DOMAIN es,
         Top(es, m), Laid(es, m, t, k)
  PROVE  /\ m \in Nat /\ m > 0 /\ Len(es) = m + Height(k)
         /\ {i \in 1..Len(es) : es[i].live /\ es[i].role = "user"} = {m}
<1> DEFINE n == Len(es)
<1>1. m \in Nat /\ m > 0 /\ n = m + Height(k) /\ DOMAIN es = 1..n
  BY DEF Laid
<1>2. \A i \in 1..n : i < m \/ i = m \/ (i = m + 1 /\ k # 0) \/ (i = m + 2 /\ k \in {3, 4, 5})
                      \/ (i = m + 3 /\ k = 5)
  BY <1>1, Heights, Offsets
<1>3. \A i \in 1..n : i < m => ~es[i].live
  BY <1>1 DEF Top
<1>4. /\ k # 0 => es[m + 1].role = "assistant"
      /\ k \in {3, 4, 5} => es[m + 2].role = "tool"
      /\ k = 5 => es[m + 3].role = "assistant"
  BY Heights DEF Laid, Block
<1>5. es[m].live /\ es[m].role = "user"
  BY DEF Top
<1> HIDE DEF n
<1>6. {i \in 1..n : es[i].live /\ es[i].role = "user"} = {m}
  BY <1>1, <1>2, <1>3, <1>4, <1>5
<1> QED
  BY <1>1, <1>6 DEF n

\* What is shown after the message reads as the words.
LEMMA ScreenReads ==
  ASSUME NEW t, NEW k \in 0..5, OnTop(transcript, t, k)
  PROVE  OnScreen = Words(k)
<1> DEFINE es == transcript  n == Len(es)
           from == {i \in 1..n : es[i].live /\ es[i].role = "user"}
<1>0. es \in Seq(Entries)
  BY DEF OnTop
<1>1. PICK m \in DOMAIN es : Top(es, m) /\ Laid(es, m, t, k)
  BY DEF OnTop
<1>2. m \in Nat /\ n = m + Height(k) /\ from = {m}
  BY <1>0, <1>1, Below
<1> DEFINE p == Height(k)
           ps == [i \in 1..p |-> es[m + i].parts]
<1>3. OnScreen = FlattenSeq(ps)
  <2>1. OnScreen = IF from = {} THEN <<>>
                   ELSE FlattenSeq([i \in 1..(n - Max(from)) |-> es[Max(from) + i].parts])
    BY DEF OnScreen
  <2>2. Max(from) = m
    BY <1>2 DEF Max
  <2>3. n - m = p
    BY <1>2, Heights, Offsets
  <2> HIDE DEF p, n, from
  <2> QED
    BY <1>2, <2>1, <2>2, <2>3
<1>4. p \in 0..3
  BY Heights
<1>5. Len(ps) = p /\ \A i \in 1..p : ps[i] = es[m + i].parts
  BY <1>4
<1>6. /\ k \in {1, 2} => es[m + 1].parts = Words(k)
      /\ k \in {3, 4, 5} => es[m + 1].parts = <<"text">>
      /\ k = 3 => es[m + 2].parts = <<"call">>
      /\ k \in {4, 5} => es[m + 2].parts = <<"call", "result">>
      /\ k = 5 => es[m + 3].parts = <<"text">>
  BY <1>1 DEF Laid, Block
<1> HIDE DEF ps, p, es
<1>7. CASE k = 0
  <2>1. p = 0
    BY <1>7, Heights DEF p
  <2>2. ps = <<>>
    BY <2>1 DEF ps, p
  <2> QED
    BY <1>3, <1>7, <2>2, FlattenNone, WordsKnown
<1>8. CASE k \in {1, 2}
  <2>1. p = 1
    BY <1>8, Heights DEF p
  <2>2. Len(ps) = 1 /\ Len(ps) \in 1..3 /\ ps[1] = Words(k)
    BY <1>5, <1>6, <1>8, <2>1
  <2> QED
    BY <1>3, <2>2, FlattenIs
<1>9. CASE k = 3
  <2>1. p = 2
    BY <1>9, Heights DEF p
  <2>2. Len(ps) = 2 /\ Len(ps) \in 1..3 /\ ps[1] = <<"text">> /\ ps[2] = <<"call">>
    BY <1>5, <1>6, <1>9, <2>1
  <2> QED
    BY <1>3, <1>9, <2>2, FlattenIs, WordsJoin, WordsKnown
<1>10. CASE k = 4
  <2>1. p = 2
    BY <1>10, Heights DEF p
  <2>2. Len(ps) = 2 /\ Len(ps) \in 1..3 /\ ps[1] = <<"text">> /\ ps[2] = <<"call", "result">>
    BY <1>5, <1>6, <1>10, <2>1
  <2> QED
    BY <1>3, <1>10, <2>2, FlattenIs, WordsJoin, WordsKnown
<1>11. CASE k = 5
  <2>1. p = 3
    BY <1>11, Heights DEF p
  <2>2. /\ Len(ps) = 3 /\ Len(ps) \in 1..3
        /\ ps[1] = <<"text">> /\ ps[2] = <<"call", "result">> /\ ps[3] = <<"text">>
    BY <1>5, <1>6, <1>11, <2>1
  <2> QED
    BY <1>3, <1>11, <2>2, FlattenIs, WordsJoin, WordsKnown
<1> QED
  BY Heights, <1>7, <1>8, <1>9, <1>10, <1>11

-----------------------------------------------------------------------------
(* What an event does to the screen. *)

LEMMA WithAnEntry ==
  ASSUME NEW es \in Seq(Entries), NEW x \in Entries
  PROVE  /\ Append(es, x) \in Seq(Entries) /\ Len(Append(es, x)) = Len(es) + 1
         /\ \A i \in DOMAIN es : i \in DOMAIN Append(es, x) /\ Append(es, x)[i] = es[i]
         /\ Append(es, x)[Len(es) + 1] = x
         /\ \A i \in DOMAIN Append(es, x) : i \in DOMAIN es \/ i = Len(es) + 1
  OBVIOUS

\* The entry i of es with e added to its parts and another status.
With(x, e, st) == [x EXCEPT !.parts = Append(x.parts, e), !.status = st]
Updated(es, i, e, st) == [es EXCEPT ![i] = With(es[i], e, st)]

Grown(f, es, i, e) ==
  /\ f \in Seq(Entries) /\ Len(f) = Len(es) /\ DOMAIN f = DOMAIN es
  /\ \A j \in DOMAIN es : j # i => f[j] = es[j]
  /\ f[i].role = es[i].role /\ f[i].live = es[i].live /\ f[i].turn = es[i].turn
  /\ f[i].parts = Append(es[i].parts, e)

LEMMA UpdatedTwice ==
  ASSUME NEW es \in Seq(Entries), NEW i \in DOMAIN es, NEW e, NEW st
  PROVE  /\ Updated(es, i, e, st) = [es EXCEPT ![i].parts = Append(@, e), ![i].status = st]
         /\ Updated(es, i, e, st) = [es EXCEPT ![i].status = st, ![i].parts = Append(@, e)]
<1>1. es[i] \in Entries
  OBVIOUS
<1> QED
  BY <1>1 DEF Updated, With, Entries

LEMMA AnEntryUpdated ==
  ASSUME NEW es \in Seq(Entries), NEW i \in DOMAIN es, NEW e \in Chunks,
         NEW st \in Statuses \cup {"streaming"}
  PROVE  Grown(Updated(es, i, e, st), es, i, e)
<1> DEFINE x == es[i]
           y == With(x, e, st)
           f == Updated(es, i, e, st)
<1>1. x \in Entries
  OBVIOUS
<1>2. Append(x.parts, e) \in Seq(Chunks \cup Parts)
  <2>1. x.parts \in Seq(Chunks \cup Parts) /\ e \in Chunks \cup Parts
    BY <1>1 DEF Entries
  <2> QED
    BY <2>1
<1>3. /\ y \in Entries /\ y.role = x.role /\ y.live = x.live /\ y.turn = x.turn
      /\ y.parts = Append(x.parts, e)
  BY <1>1, <1>2 DEF Entries, With
<1>4. f = [es EXCEPT ![i] = y]
  BY DEF Updated
<1> HIDE DEF y
<1>5. f \in Seq(Entries) /\ Len(f) = Len(es) /\ DOMAIN f = DOMAIN es /\ f[i] = y
      /\ \A j \in DOMAIN es : j # i => f[j] = es[j]
  BY <1>3, <1>4
<1> QED
  BY <1>3, <1>5 DEF Grown

LEMMA LaidIs ==
  ASSUME NEW es, NEW m, NEW t
  PROVE  /\ Laid(es, m, t, 0) <=> Len(es) = m + 0
         /\ Laid(es, m, t, 1) <=> Len(es) = m + 1 /\ Block(es, m + 1, t, "assistant", <<"text">>)
         /\ Laid(es, m, t, 2) <=> /\ Len(es) = m + 1
                                  /\ Block(es, m + 1, t, "assistant", <<"text", "text">>)
         /\ Laid(es, m, t, 3) <=> /\ Len(es) = m + 2
                                  /\ Block(es, m + 1, t, "assistant", <<"text">>)
                                  /\ Block(es, m + 2, t, "tool", <<"call">>)
         /\ Laid(es, m, t, 4) <=> /\ Len(es) = m + 2
                                  /\ Block(es, m + 1, t, "assistant", <<"text">>)
                                  /\ Block(es, m + 2, t, "tool", <<"call", "result">>)
         /\ Laid(es, m, t, 5) <=> /\ Len(es) = m + 3
                                  /\ Block(es, m + 1, t, "assistant", <<"text">>)
                                  /\ Block(es, m + 2, t, "tool", <<"call", "result">>)
                                  /\ Block(es, m + 3, t, "assistant", <<"text">>)
<1>1. /\ Height(0) = 0 /\ Height(1) = 1 /\ Height(2) = 1 /\ Height(3) = 2 /\ Height(4) = 2
      /\ Height(5) = 3
  BY DEF Height
<1>2. Laid(es, m, t, 0) <=> Len(es) = m + 0
  BY <1>1 DEF Laid
<1>3. Laid(es, m, t, 1) <=> Len(es) = m + 1 /\ Block(es, m + 1, t, "assistant", Words(1))
  BY <1>1 DEF Laid
<1>4. Laid(es, m, t, 2) <=> Len(es) = m + 1 /\ Block(es, m + 1, t, "assistant", Words(2))
  BY <1>1 DEF Laid
<1>5. Laid(es, m, t, 3) <=> /\ Len(es) = m + 2
                            /\ Block(es, m + 1, t, "assistant", <<"text">>)
                            /\ Block(es, m + 2, t, "tool", <<"call">>)
  BY <1>1 DEF Laid
<1>6. Laid(es, m, t, 4) <=> /\ Len(es) = m + 2
                            /\ Block(es, m + 1, t, "assistant", <<"text">>)
                            /\ Block(es, m + 2, t, "tool", <<"call", "result">>)
  BY <1>1 DEF Laid
<1>7. Laid(es, m, t, 5) <=> /\ Len(es) = m + 3
                            /\ Block(es, m + 1, t, "assistant", <<"text">>)
                            /\ Block(es, m + 2, t, "tool", <<"call", "result">>)
                            /\ Block(es, m + 3, t, "assistant", <<"text">>)
  BY <1>1 DEF Laid
<1> QED
  BY <1>2, <1>3, <1>4, <1>5, <1>6, <1>7, WordsKnown

LEMMA WordsGrow == Append(<<"text">>, "text") = <<"text", "text">>
                   /\ Append(<<"call">>, "result") = <<"call", "result">>
<1>1. ASSUME NEW S, NEW a, NEW b, a \in S, b \in S PROVE Append(<<a>>, b) = <<a, b>>
  <2> DEFINE l == Append(<<a>>, b)  m == <<a, b>>
  <2>1. l \in Seq(S) /\ Len(l) = 2 /\ l[1] = a /\ l[2] = b
    BY <1>1
  <2>2. m \in Seq(S) /\ Len(m) = 2 /\ m[1] = a /\ m[2] = b
    BY <1>1
  <2> HIDE DEF l, m
  <2>3. \A i \in 1..2 : l[i] = m[i]
    BY <2>1, <2>2
  <2>4. l = m
    BY <2>1, <2>2, <2>3, SeqEqual
  <2> QED
    BY <2>4 DEF l, m
<1> DEFINE S == {"text", "call", "result"}
<1>2. "text" \in S /\ "call" \in S /\ "result" \in S
  OBVIOUS
<1> HIDE DEF S
<1> QED
  BY <1>1, <1>2, Zenon

\* A new entry below the others.
LEMMA NewBelow ==
  ASSUME NEW t \in Turns, NEW es, NEW k \in {0, 1, 4}, OnTop(es, t, k),
         NEW x \in Entries, x.live, x.turn = t,
         k \in {0, 4} => x.role = "assistant" /\ x.parts = <<"text">>,
         k = 1 => x.role = "tool" /\ x.parts = <<"call">>
  PROVE  OnTop(Append(es, x), t, IF k = 0 THEN 1 ELSE IF k = 1 THEN 3 ELSE 5)
<1>1. es \in Seq(Entries) /\ k \in 0..5
  BY DEF OnTop
<1>2. PICK m \in DOMAIN es : Top(es, m) /\ Laid(es, m, t, k)
  BY DEF OnTop
<1>4. m \in Nat /\ m > 0 /\ Len(es) = m + Height(k) /\ Height(k) \in 0..3 /\ DOMAIN es = 1..Len(es)
  <2>1. m \in Nat /\ m > 0 /\ Len(es) = m + Height(k)
    BY <1>1, <1>2 DEF Laid
  <2>2. Height(k) \in 0..3 /\ DOMAIN es = 1..Len(es)
    BY <1>1, Heights
  <2> QED
    BY <2>1, <2>2
<1> DEFINE f == Append(es, x)
           k2 == IF k = 0 THEN 1 ELSE IF k = 1 THEN 3 ELSE 5
<1>3. /\ f \in Seq(Entries) /\ Len(f) = Len(es) + 1
      /\ \A i \in DOMAIN es : i \in DOMAIN f /\ f[i] = es[i]
      /\ f[Len(es) + 1] = x
      /\ \A i \in DOMAIN f : i \in DOMAIN es \/ i = Len(es) + 1
  BY <1>1, WithAnEntry
<1>5. Len(f) = m + Height(k2)
  <2>1. Height(k2) = Height(k) + 1
    BY DEF Height
  <2> QED
    BY <1>3, <1>4, <2>1
<1>6. Top(f, m)
  <2>1. \A i \in DOMAIN f : i < m => i \in DOMAIN es
    BY <1>3, <1>4
  <2> QED
    BY <1>2, <1>3, <2>1 DEF Top
<1>7. \A h \in 1..Height(k) : m + h \in DOMAIN es
  BY <1>4
<1> HIDE DEF f
<1>8. CASE k = 0
  <2>1. f[m + 1] = x /\ k2 = 1 /\ Height(k2) = 1
    BY <1>3, <1>4, <1>8, Heights DEF Height
  <2>2. Block(f, m + 1, t, "assistant", <<"text">>)
    BY <1>8, <2>1 DEF Block
  <2>3. Laid(f, m, t, 1)
    BY <1>5, <2>1, <2>2, LaidIs
  <2>4. m \in DOMAIN f /\ OnTop(f, t, 1)
    BY <1>3, <1>6, <1>2, <2>3 DEF OnTop
  <2> QED
    BY <2>1, <2>4 DEF f
<1>9. CASE k = 1
  <2>1. Height(k) = 1 /\ 1 \in 1..1 /\ k2 = 3 /\ Height(k2) = 2
    BY <1>9, Heights DEF Height
  <2>2. f[m + 2] = x /\ f[m + 1] = es[m + 1]
    BY <1>3, <1>4, <1>7, <2>1
  <2>3. Block(es, m + 1, t, "assistant", <<"text">>)
    BY <1>2, <1>9, LaidIs
  <2>4. Block(f, m + 1, t, "assistant", <<"text">>) /\ Block(f, m + 2, t, "tool", <<"call">>)
    BY <1>9, <2>2, <2>3 DEF Block
  <2>5. Laid(f, m, t, 3)
    BY <1>5, <2>1, <2>4, LaidIs
  <2>6. m \in DOMAIN f /\ OnTop(f, t, 3)
    BY <1>3, <1>6, <1>2, <2>5 DEF OnTop
  <2> QED
    BY <2>1, <2>6 DEF f
<1>10. CASE k = 4
  <2>1. Height(k) = 2 /\ 1 \in 1..2 /\ 2 \in 1..2 /\ k2 = 5 /\ Height(k2) = 3
    BY <1>10, Heights DEF Height
  <2>2. f[m + 3] = x /\ f[m + 1] = es[m + 1] /\ f[m + 2] = es[m + 2]
    BY <1>3, <1>4, <1>7, <2>1
  <2>3. /\ Block(es, m + 1, t, "assistant", <<"text">>)
        /\ Block(es, m + 2, t, "tool", <<"call", "result">>)
    BY <1>2, <1>10, LaidIs
  <2>4. /\ Block(f, m + 1, t, "assistant", <<"text">>)
        /\ Block(f, m + 2, t, "tool", <<"call", "result">>)
        /\ Block(f, m + 3, t, "assistant", <<"text">>)
    BY <1>10, <2>2, <2>3 DEF Block
  <2>5. Laid(f, m, t, 5)
    BY <1>5, <2>1, <2>4, LaidIs
  <2>6. m \in DOMAIN f /\ OnTop(f, t, 5)
    BY <1>3, <1>6, <1>2, <2>5 DEF OnTop
  <2> QED
    BY <2>1, <2>6 DEF f
<1> QED
  BY <1>8, <1>9, <1>10

\* The last entry grows.
LEMMA LastGrows ==
  ASSUME NEW t \in Turns, NEW es \in Seq(Entries), NEW k \in {1, 3}, NEW m \in DOMAIN es,
         Top(es, m), Laid(es, m, t, k), NEW i, i = m + Height(k),
         NEW e, e = (IF k = 1 THEN "text" ELSE "result"),
         NEW st \in Statuses \cup {"streaming"}
  PROVE  OnTop(Updated(es, i, e, st), t, k + 1)
<1> DEFINE f == Updated(es, i, e, st)
<1>1. /\ k \in 0..5 /\ m \in Nat /\ m > 0 /\ Len(es) = i /\ DOMAIN es = 1..Len(es)
      /\ Height(k) \in 1..2 /\ i \in Nat
  <2>1. k \in 0..5 /\ Height(k) \in 1..2
    BY DEF Height
  <2>2. m \in Nat /\ m > 0 /\ Len(es) = i
    BY <2>1, Below
  <2> QED
    BY <2>1, <2>2
<1>2. i \in DOMAIN es /\ i # m /\ m < i /\ e \in Chunks
  BY <1>1 DEF Chunks
<1>3. /\ f \in Seq(Entries) /\ Len(f) = Len(es) /\ DOMAIN f = DOMAIN es
      /\ \A j \in DOMAIN es : j # i => f[j] = es[j]
      /\ f[i].role = es[i].role /\ f[i].live = es[i].live /\ f[i].turn = es[i].turn
      /\ f[i].parts = Append(es[i].parts, e)
  <2>1. Grown(f, es, i, e)
    BY <1>2, AnEntryUpdated
  <2> QED
    BY <2>1 DEF Grown
<1>4. Height(k + 1) = Height(k)
  BY DEF Height
<1>5. Top(f, m)
  <2>1. \A j \in DOMAIN es : j < m => j # i
    BY <1>1, <1>2
  <2> QED
    BY <1>2, <1>3, <2>1 DEF Top
<1> HIDE DEF f
<1>6. CASE k = 1
  <2>1. i = m + 1 /\ k + 1 = 2 /\ Height(2) = 1
    BY <1>6 DEF Height
  <2>2. Block(es, m + 1, t, "assistant", <<"text">>)
    BY <1>6, LaidIs
  <2>3. Append(<<"text">>, "text") = <<"text", "text">>
    BY WordsGrow
  <2>4. Block(f, m + 1, t, "assistant", <<"text", "text">>)
    BY <1>3, <1>6, <2>1, <2>2, <2>3 DEF Block
  <2>5. Laid(f, m, t, 2)
    BY <1>1, <1>3, <2>1, <2>4, LaidIs
  <2>6. OnTop(f, t, 2)
    BY <1>2, <1>3, <1>5, <2>5 DEF OnTop
  <2> QED
    BY <2>1, <2>6 DEF f
<1>7. CASE k = 3
  <2>1. i = m + 2 /\ k + 1 = 4 /\ m + 1 # i /\ m + 1 \in DOMAIN es
    BY <1>1, <1>7 DEF Height
  <2>2. Block(es, m + 1, t, "assistant", <<"text">>) /\ Block(es, m + 2, t, "tool", <<"call">>)
    BY <1>7, LaidIs
  <2>3. Append(<<"call">>, "result") = <<"call", "result">>
    BY WordsGrow
  <2>4. Block(f, m + 2, t, "tool", <<"call", "result">>)
    <3>1. f[i].parts = Append(es[i].parts, "result")
      BY <1>3, <1>7
    <3> QED
      BY <1>3, <2>1, <2>2, <2>3, <3>1 DEF Block
  <2>5. Block(f, m + 1, t, "assistant", <<"text">>)
    BY <1>3, <2>1, <2>2 DEF Block
  <2>6. Laid(f, m, t, 4)
    BY <1>1, <1>3, <2>1, <2>4, <2>5, LaidIs
  <2>7. OnTop(f, t, 4)
    BY <1>2, <1>3, <1>5, <2>6 DEF OnTop
  <2> QED
    BY <2>1, <2>7 DEF f
<1> QED
  BY <1>6, <1>7

\* Which entries of the screen take further text, and which a tool's result.
LEMMA OpenEntries ==
  ASSUME NEW t \in Turns, NEW es \in Seq(Entries), NEW k \in 0..5, NEW m \in DOMAIN es,
         Top(es, m), Laid(es, m, t, k)
  PROVE  /\ k = 0 => {i \in 1..Len(es) : es[i].role = "assistant" /\ es[i].live} = {}
         /\ k \in 1..4 => {i \in 1..Len(es) : es[i].role = "assistant" /\ es[i].live} = {m + 1}
         /\ k \in 0..2 => {i \in 1..Len(es) : es[i].role = "tool" /\ es[i].live /\ es[i].turn = t} = {}
         /\ k \in 3..4 =>
              {i \in 1..Len(es) : es[i].role = "tool" /\ es[i].live /\ es[i].turn = t} = {m + 2}
<1> DEFINE n == Len(es)
<1>1. m \in Nat /\ m > 0 /\ n = m + Height(k) /\ DOMAIN es = 1..n /\ Height(k) \in 0..3
  BY Heights DEF Laid
<1>2. \A i \in 1..n : i < m \/ i = m \/ (i = m + 1 /\ k # 0) \/ (i = m + 2 /\ k \in {3, 4, 5})
                      \/ (i = m + 3 /\ k = 5)
  BY <1>1, Heights, Offsets
<1>3. \A i \in 1..n : i < m => ~es[i].live
  BY <1>1 DEF Top
<1>4. es[m].role = "user"
  BY DEF Top
<1>5. k # 0 => /\ es[m + 1].role = "assistant" /\ es[m + 1].live /\ m + 1 \in 1..n
  <2>1. k # 0 => Block(es, m + 1, t, "assistant", es[m + 1].parts)
    BY Heights DEF Laid, Block
  <2>2. k # 0 => m + 1 \in 1..n
    BY <1>1, Heights
  <2> QED
    BY <2>1, <2>2 DEF Block
<1>6. k \in {3, 4, 5} => /\ es[m + 2].role = "tool" /\ es[m + 2].live /\ es[m + 2].turn = t
                         /\ m + 2 \in 1..n
  <2>1. k \in {3, 4, 5} => Block(es, m + 2, t, "tool", es[m + 2].parts)
    BY Heights DEF Laid, Block
  <2>2. k \in {3, 4, 5} => m + 2 \in 1..n
    BY <1>1, Heights
  <2> QED
    BY <2>1, <2>2 DEF Block
<1>7. k = 0 \/ k \in {1, 2} \/ k \in {3, 4} \/ k = 5
  OBVIOUS
<1> HIDE DEF n
<1>8. CASE k = 0
  <2>1. \A i \in 1..n : ~(es[i].role = "assistant" /\ es[i].live)
                        /\ ~(es[i].role = "tool" /\ es[i].live)
    BY <1>2, <1>3, <1>4, <1>8
  <2> QED
    BY <1>8, <2>1 DEF n
<1>9. CASE k \in {1, 2}
  <2>1. \A i \in 1..n : (es[i].role = "assistant" /\ es[i].live) <=> i = m + 1
    BY <1>2, <1>3, <1>4, <1>5, <1>9
  <2>2. \A i \in 1..n : ~(es[i].role = "tool" /\ es[i].live)
    BY <1>2, <1>3, <1>4, <1>5, <1>9
  <2> QED
    BY <1>5, <1>9, <2>1, <2>2 DEF n
<1>10. CASE k \in {3, 4}
  <2>1. \A i \in 1..n : (es[i].role = "assistant" /\ es[i].live) <=> i = m + 1
    BY <1>2, <1>3, <1>4, <1>5, <1>6, <1>10
  <2>2. \A i \in 1..n : (es[i].role = "tool" /\ es[i].live /\ es[i].turn = t) <=> i = m + 2
    BY <1>2, <1>3, <1>4, <1>5, <1>6, <1>10
  <2> QED
    BY <1>5, <1>6, <1>10, <2>1, <2>2 DEF n
<1>11. CASE k = 5
  BY <1>11
<1> QED
  BY <1>7, <1>8, <1>9, <1>10, <1>11

LEMMA OfTheTurn ==
  \A t \in Turns :
    /\ Entry("assistant", "streaming", TRUE, t, <<"text">>) \in Entries
    /\ Entry("tool", "streaming", TRUE, t, <<"call">>) \in Entries
    /\ Entry("user", "complete", TRUE, t, <<"message">>) \in Entries
<1>1. ASSUME NEW t \in Turns, NEW role \in Roles, NEW st \in Statuses \cup {"streaming"},
             NEW e \in Chunks \cup Parts
      PROVE  Entry(role, st, TRUE, t, <<e>>) \in Entries
  BY DEF Entry, Entries
<1> QED
  BY <1>1 DEF Roles, Statuses, Chunks, Parts

\* Text after nothing, after text, or after the tool.
LEMMA TextShown ==
  ASSUME NEW t \in Turns, NEW es, NEW k \in {0, 1, 4}, OnTop(es, t, k)
  PROVE  OnTop(AppendDelta(es, t, "text"), t, IF k = 0 THEN 1 ELSE IF k = 1 THEN 2 ELSE 5)
<1>1. es \in Seq(Entries) /\ k \in 0..5
  BY DEF OnTop
<1>2. PICK m \in DOMAIN es : Top(es, m) /\ Laid(es, m, t, k)
  BY DEF OnTop
<1>3. m \in Nat /\ m > 0 /\ Len(es) = m + Height(k) /\ Height(k) \in 0..3
  <2>1. m \in Nat /\ m > 0 /\ Len(es) = m + Height(k)
    BY <1>1, <1>2, Below, Zenon
  <2> QED
    BY <1>1, <2>1, Heights
<1> DEFINE mine == {i \in 1..Len(es) : es[i].role = "assistant" /\ es[i].live}
           after == \E j \in (Max(mine) + 1)..Len(es) : es[j].role = "tool"
           x == Entry("assistant", "streaming", TRUE, t, <<"text">>)
<1>4. AppendDelta(es, t, "text") =
        IF mine = {} \/ after THEN Append(es, x)
        ELSE [es EXCEPT ![Max(mine)].parts = Append(@, "text"), ![Max(mine)].status = "streaming"]
  BY DEF AppendDelta
<1>5. (k = 0 => mine = {}) /\ (k \in {1, 4} => mine = {m + 1})
  <2>1. (k = 0 => mine = {}) /\ (k \in 1..4 => mine = {m + 1})
    BY <1>1, <1>2, OpenEntries, Zenon
  <2>2. k \in {1, 4} => k \in 1..4
    OBVIOUS
  <2> QED
    BY <2>1, <2>2
<1>6. k \in {1, 4} => Max(mine) = m + 1
  BY <1>3, <1>5 DEF Max
<1>7. x \in Entries /\ x.live /\ x.turn = t /\ x.role = "assistant" /\ x.parts = <<"text">>
  BY OfTheTurn DEF Entry
<1> HIDE DEF mine, x
<1>8. CASE k = 1
  <2>1. Len(es) = m + 1 /\ m + 1 = m + Height(k) /\ m + 1 \in DOMAIN es
    BY <1>1, <1>3, <1>8 DEF Height
  <2>2. ~after /\ mine # {}
    BY <1>3, <1>5, <1>6, <1>8, <2>1
  <2>3. AppendDelta(es, t, "text") =
          [es EXCEPT ![m + 1].parts = Append(@, "text"), ![m + 1].status = "streaming"]
    BY <1>4, <1>6, <1>8, <2>2
  <2>4. AppendDelta(es, t, "text") = Updated(es, m + 1, "text", "streaming")
    <3>1. ASSUME NEW i \in DOMAIN es
          PROVE  Updated(es, i, "text", "streaming") =
                   [es EXCEPT ![i].parts = Append(@, "text"), ![i].status = "streaming"]
      <4>1. es[i] \in Entries
        BY <1>1
      <4> QED
        BY <1>1, <4>1 DEF Updated, With, Entries
    <3> QED
      BY <2>1, <2>3, <3>1, Zenon
  <2>5. OnTop(Updated(es, m + 1, "text", "streaming"), t, 1 + 1)
    BY <1>1, <1>2, <1>8, <2>1, LastGrows
  <2> QED
    BY <1>8, <2>4, <2>5
<1>9. CASE k # 1
  <2>1. k = 4 => after
    <3>1. ASSUME k = 4 PROVE after
      <4>1. Laid(es, m, t, 4)
        BY <1>2, <3>1
      <4>2. Len(es) = m + 2 /\ es[m + 2].role = "tool"
        BY <4>1, LaidIs DEF Block
      <4>3. m + 2 \in (Max(mine) + 1)..Len(es)
        BY <1>3, <1>6, <3>1, <4>2
      <4> QED
        BY <4>2, <4>3
    <3> QED
      BY <3>1
  <2>2. AppendDelta(es, t, "text") = Append(es, x)
    BY <1>4, <1>5, <1>9, <2>1
  <2>3. OnTop(Append(es, x), t, IF k = 0 THEN 1 ELSE IF k = 1 THEN 3 ELSE 5)
    BY <1>7, <1>9, NewBelow
  <2> QED
    BY <1>9, <2>2, <2>3
<1> QED
  BY <1>8, <1>9

\* A tool's call, below the text before it.
LEMMA CallShown ==
  ASSUME NEW t \in Turns, NEW es, OnTop(es, t, 1)
  PROVE  OnTop(AppendTool(es, t, "call"), t, 3)
<1>1. es \in Seq(Entries)
  BY DEF OnTop
<1>2. PICK m \in DOMAIN es : Top(es, m) /\ Laid(es, m, t, 1)
  BY DEF OnTop
<1>3. {i \in 1..Len(es) : es[i].role = "tool" /\ es[i].live /\ es[i].turn = t} = {}
  BY <1>1, <1>2, OpenEntries
<1> DEFINE x == Entry("tool", "streaming", TRUE, t, <<"call">>)
<1>4. AppendTool(es, t, "call") = Append(es, x)
  BY <1>3 DEF AppendTool
<1>5. x \in Entries /\ x.live /\ x.turn = t /\ x.role = "tool" /\ x.parts = <<"call">>
  BY OfTheTurn DEF Entry
<1> HIDE DEF x
<1>6. OnTop(Append(es, x), t, IF 1 = 0 THEN 1 ELSE IF 1 = 1 THEN 3 ELSE 5)
  BY <1>5, NewBelow
<1> QED
  BY <1>4, <1>6

\* Its result, in the entry of the call.
LEMMA ResultShown ==
  ASSUME NEW t \in Turns, NEW es, OnTop(es, t, 3)
  PROVE  OnTop(AppendTool(es, t, "result"), t, 4)
<1>1. es \in Seq(Entries)
  BY DEF OnTop
<1>2. PICK m \in DOMAIN es : Top(es, m) /\ Laid(es, m, t, 3)
  BY DEF OnTop
<1> DEFINE mine == {i \in 1..Len(es) : es[i].role = "tool" /\ es[i].live /\ es[i].turn = t}
<1>3. mine = {m + 2}
  BY <1>1, <1>2, OpenEntries
<1>4. /\ m \in Nat /\ m + 2 \in DOMAIN es /\ m + 2 = m + Height(3)
  BY <1>1, <1>2, LaidIs DEF Height
<1>5. AppendTool(es, t, "result") =
        IF mine = {} THEN Append(es, Entry("tool", "complete", TRUE, t, <<"result">>))
        ELSE [es EXCEPT ![Max(mine)].status = "complete", ![Max(mine)].parts = Append(@, "result")]
  BY DEF AppendTool
<1>6. Max(mine) = m + 2 /\ mine # {}
  BY <1>3, <1>4 DEF Max
<1> HIDE DEF mine
<1>7. AppendTool(es, t, "result") =
        [es EXCEPT ![m + 2].status = "complete", ![m + 2].parts = Append(@, "result")]
  BY <1>5, <1>6
<1>8. ASSUME NEW i \in DOMAIN es
      PROVE  Updated(es, i, "result", "complete") =
               [es EXCEPT ![i].status = "complete", ![i].parts = Append(@, "result")]
  <2>1. es[i] \in Entries
    BY <1>1
  <2> QED
    BY <1>1, <2>1 DEF Updated, With, Entries
<1>9. AppendTool(es, t, "result") = Updated(es, m + 2, "result", "complete")
  BY <1>4, <1>7, <1>8, Zenon
<1>10. OnTop(Updated(es, m + 2, "result", "complete"), t, 3 + 1)
  <2>1. "complete" \in Statuses \cup {"streaming"}
    BY DEF Statuses
  <2> QED
    BY <1>1, <1>2, <1>4, <2>1, LastGrows
<1> QED
  BY <1>9, <1>10

\* The end of the answer completes the entries and leaves them in place.
LEMMA FinishShown ==
  ASSUME NEW t, NEW es, NEW k \in 0..5, OnTop(es, t, k)
  PROVE  OnTop(FinishEntries(es), t, k)
<1>1. es \in Seq(Entries)
  BY DEF OnTop
<1>2. PICK m \in DOMAIN es : Top(es, m) /\ Laid(es, m, t, k)
  BY DEF OnTop
<1> DEFINE f == FinishEntries(es)
<1>3. DOMAIN f = DOMAIN es /\ Len(f) = Len(es)
      /\ \A i \in DOMAIN es : f[i] = IF es[i].role = "assistant" /\ es[i].status = "streaming"
                                     THEN [es[i] EXCEPT !.status = "complete"] ELSE es[i]
  BY <1>1 DEF FinishEntries
<1>4. ASSUME NEW i \in DOMAIN es
      PROVE  /\ f[i] \in Entries /\ f[i].role = es[i].role /\ f[i].live = es[i].live
             /\ f[i].turn = es[i].turn /\ f[i].parts = es[i].parts
  <2>1. es[i] \in Entries
    BY <1>1
  <2>2. [es[i] EXCEPT !.status = "complete"] \in Entries
    BY <2>1 DEF Entries, Statuses
  <2> HIDE DEF f
  <2> QED
    BY <1>3, <2>1, <2>2 DEF Entries
<1>5. f \in Seq(Entries)
  <2>1. f = [i \in 1..Len(es) |-> f[i]]
    BY DEF FinishEntries
  <2>2. Len(es) \in Nat /\ \A i \in 1..Len(es) : f[i] \in Entries
    BY <1>1, <1>4
  <2> HIDE DEF f
  <2> QED
    BY <2>1, <2>2
<1> HIDE DEF f
<1>6. \A i \in DOMAIN es : \A role, parts : Block(es, i, t, role, parts) => Block(f, i, t, role, parts)
  BY <1>4 DEF Block
<1>7. Top(f, m)
  BY <1>2, <1>3, <1>4 DEF Top
<1>8. m \in Nat /\ \A h \in 1..Height(k) : m + h \in DOMAIN es
  <2>1. m \in Nat /\ m > 0 /\ Len(es) = m + Height(k)
    BY <1>1, <1>2, Below, Zenon
  <2>2. Height(k) \in 0..3 /\ DOMAIN es = 1..Len(es)
    BY <1>1, Heights
  <2> QED
    BY <2>1, <2>2
<1>9. /\ k \in {1, 2, 3, 4, 5} => 1 \in 1..Height(k)
      /\ k \in {3, 4, 5} => 2 \in 1..Height(k)
      /\ k = 5 => 3 \in 1..Height(k)
  BY DEF Height
<1>10. Laid(f, m, t, k)
  <2>1. Len(f) = m + Height(k)
    BY <1>2, <1>3 DEF Laid
  <2>2. /\ k \in {1, 2} => Block(f, m + 1, t, "assistant", Words(k))
        /\ k \in {3, 4, 5} => Block(f, m + 1, t, "assistant", <<"text">>)
        /\ k = 3 => Block(f, m + 2, t, "tool", <<"call">>)
        /\ k \in {4, 5} => Block(f, m + 2, t, "tool", <<"call", "result">>)
        /\ k = 5 => Block(f, m + 3, t, "assistant", <<"text">>)
    <3>1. /\ k \in {1, 2, 3, 4, 5} => m + 1 \in DOMAIN es
          /\ k \in {3, 4, 5} => m + 2 \in DOMAIN es
          /\ k = 5 => m + 3 \in DOMAIN es
      BY <1>8, <1>9
    <3> QED
      BY <1>2, <1>6, <3>1 DEF Laid
  <2> QED
    BY <2>1, <2>2 DEF Laid
<1> QED
  BY <1>2, <1>3, <1>5, <1>7, <1>10 DEF OnTop, f

-----------------------------------------------------------------------------
(* From event to event. *)

LEMMA HistoryIs ==
  ASSUME NEW rs \in Seq(Rows)
  PROVE  FromHistory(rs) \in Seq(Entries) /\ \A i \in DOMAIN FromHistory(rs) : ~FromHistory(rs)[i].live
<1> DEFINE f == FromHistory(rs)
<1>1. Len(rs) \in Nat /\ f = [i \in 1..Len(rs) |-> f[i]]
      /\ \A i \in 1..Len(rs) : f[i] = Entry(rs[i].role, rs[i].status, FALSE, rs[i].turn, <<rs[i].part>>)
  BY DEF FromHistory
<1>2. ASSUME NEW i \in 1..Len(rs) PROVE f[i] \in Entries /\ ~f[i].live
  <2>1. rs[i] \in Rows
    OBVIOUS
  <2>2. /\ rs[i].role \in Roles /\ rs[i].status \in Statuses /\ rs[i].turn \in Turns
        /\ rs[i].part \in Parts
    BY <2>1 DEF Rows
  <2>3. <<rs[i].part>> \in Seq(Chunks \cup Parts)
    BY <2>2
  <2>4. ASSUME NEW role \in Roles, NEW st \in Statuses, NEW t \in Turns, NEW ps \in Seq(Chunks \cup Parts)
        PROVE  Entry(role, st, FALSE, t, ps) \in Entries /\ ~Entry(role, st, FALSE, t, ps).live
    BY DEF Entry, Entries
  <2> HIDE DEF f
  <2> QED
    BY <1>1, <2>2, <2>3, <2>4, Zenon
<1> HIDE DEF f
<1>3. f \in Seq(Entries)
  BY <1>1, <1>2
<1>4. DOMAIN f = 1..Len(rs)
  BY <1>1
<1> QED
  BY <1>2, <1>3, <1>4 DEF f

\* The message of the turn, below what the store had.
LEMMA MessageShown ==
  ASSUME NEW t \in Turns, NEW rs \in Seq(Rows)
  PROVE  OnTop(Append(FromHistory(rs), Entry("user", "complete", TRUE, t, <<"message">>)), t, 0)
<1> DEFINE es == FromHistory(rs)  x == Entry("user", "complete", TRUE, t, <<"message">>)
           f == Append(es, x)  m == Len(es) + 1
<1>1. es \in Seq(Entries) /\ \A i \in DOMAIN es : ~es[i].live
  BY HistoryIs
<1>2. x \in Entries /\ x.live /\ x.role = "user"
  BY OfTheTurn DEF Entry
<1> HIDE DEF es, x
<1>3. /\ f \in Seq(Entries) /\ Len(f) = m /\ m \in DOMAIN f /\ f[m] = x /\ Len(f) = m + 0
      /\ \A i \in DOMAIN f : i < m => i \in DOMAIN es /\ f[i] = es[i]
  BY <1>1, <1>2
<1> HIDE DEF f, m
<1>4. Top(f, m)
  BY <1>1, <1>2, <1>3 DEF Top
<1>5. Laid(f, m, t, 0)
  BY <1>3, LaidIs
<1>6. OnTop(f, t, 0)
  BY <1>3, <1>4, <1>5 DEF OnTop
<1> QED
  BY <1>6 DEF f, es, x

LEMMA WordsAre ==
  /\ \A k \in 0..5 : Words(k) \in Seq({"text", "call", "result"})
  /\ Len(Words(0)) = 0 /\ Len(Words(1)) = 1 /\ Len(Words(2)) = 2 /\ Len(Words(3)) = 2
  /\ Len(Words(4)) = 3 /\ Len(Words(5)) = 4
  /\ Words(2)[2] = "text" /\ Words(3)[2] = "call"
  /\ Append(Words(0), "text") = Words(1) /\ Append(Words(1), "text") = Words(2)
  /\ Append(Words(1), "call") = Words(3) /\ Append(Words(3), "result") = Words(4)
  /\ Append(Words(4), "text") = Words(5)
<1> DEFINE S == {"text", "call", "result"}
<1>1. /\ Words(0) \in Seq(S) /\ Len(Words(0)) = 0
      /\ Words(1) \in Seq(S) /\ Len(Words(1)) = 1 /\ Words(1)[1] = "text"
  <2>1. <<>> \in Seq(S) /\ Len(<<>>) = 0
    OBVIOUS
  <2>2. <<"text">> \in Seq(S) /\ Len(<<"text">>) = 1 /\ <<"text">>[1] = "text"
    OBVIOUS
  <2> QED
    BY <2>1, <2>2, WordsKnown, Zenon
<1>2. /\ Words(2) \in Seq(S) /\ Len(Words(2)) = 2 /\ Words(2)[1] = "text" /\ Words(2)[2] = "text"
      /\ Words(3) \in Seq(S) /\ Len(Words(3)) = 2 /\ Words(3)[1] = "text" /\ Words(3)[2] = "call"
  <2> DEFINE v == <<"text", "text">>  w == <<"text", "call">>
  <2>1. v \in Seq(S) /\ Len(v) = 2 /\ v[1] = "text" /\ v[2] = "text"
    OBVIOUS
  <2>2. w \in Seq(S) /\ Len(w) = 2 /\ w[1] = "text" /\ w[2] = "call"
    OBVIOUS
  <2> QED
    BY <2>1, <2>2, WordsKnown, Zenon
<1>3. /\ Words(4) \in Seq(S) /\ Len(Words(4)) = 3 /\ Words(4)[1] = "text" /\ Words(4)[2] = "call"
      /\ Words(4)[3] = "result"
      /\ Words(5) \in Seq(S) /\ Len(Words(5)) = 4 /\ Words(5)[1] = "text" /\ Words(5)[2] = "call"
      /\ Words(5)[3] = "result" /\ Words(5)[4] = "text"
  <2> DEFINE v == <<"text", "call", "result">>  w == <<"text", "call", "result", "text">>
  <2>1. v \in Seq(S) /\ Len(v) = 3 /\ v[1] = "text" /\ v[2] = "call" /\ v[3] = "result"
    OBVIOUS
  <2>2. w \in Seq(S) /\ Len(w) = 4 /\ w[1] = "text" /\ w[2] = "call" /\ w[3] = "result"
        /\ w[4] = "text"
    OBVIOUS
  <2> QED
    BY <2>1, <2>2, WordsKnown, Zenon
<1>4. "text" \in S /\ "call" \in S /\ "result" \in S
  OBVIOUS
<1> HIDE DEF S
<1>5. ASSUME NEW u \in Seq(S), NEW v \in Seq(S), NEW e \in S, NEW n \in 0..3, Len(u) = n,
             Len(v) = n + 1, v[n + 1] = e,
             n > 0 => v[1] = u[1], n > 1 => v[2] = u[2], n > 2 => v[3] = u[3]
      PROVE  Append(u, e) = v
  <2>1. Append(u, e) \in Seq(S) /\ Len(Append(u, e)) = Len(v)
    BY <1>5
  <2>2. \A i \in 1..n : v[i] = u[i]
    BY <1>5
  <2>3. \A i \in 1..Len(v) : Append(u, e)[i] = v[i]
    BY <1>5, <2>2
  <2> QED
    BY <2>1, <2>3, SeqEqual
<1>6. Append(Words(0), "text") = Words(1)
  <2>1. 0 \in 0..3 /\ 1 = 0 + 1 /\ ~(0 > 0) /\ ~(0 > 1) /\ ~(0 > 2)
    OBVIOUS
  <2>2. Words(1)[0 + 1] = "text" /\ Len(Words(1)) = 0 + 1
    BY <1>1, <2>1
  <2> QED
    BY <1>1, <1>4, <1>5, <2>1, <2>2, Zenon
<1>7. ASSUME NEW v \in Seq(S), NEW e \in S, Len(v) = 2, v[1] = "text", v[2] = e
      PROVE  Append(Words(1), e) = v
  <2>1. 1 \in 0..3 /\ 2 = 1 + 1 /\ ~(1 > 1) /\ ~(1 > 2)
    OBVIOUS
  <2>2. v[1] = Words(1)[1] /\ Len(v) = 1 + 1 /\ v[1 + 1] = e
    BY <1>1, <1>7, <2>1
  <2>3. Words(1) \in Seq(S) /\ Len(Words(1)) = 1
    BY <1>1
  <2> QED
    BY <1>5, <2>1, <2>2, <2>3, Zenon
<1>8. Append(Words(3), "result") = Words(4)
  <2>1. 2 \in 0..3 /\ 3 = 2 + 1 /\ ~(2 > 2)
    OBVIOUS
  <2>2. /\ Words(4)[1] = Words(3)[1] /\ Words(4)[2] = Words(3)[2]
        /\ Len(Words(4)) = 2 + 1 /\ Words(4)[2 + 1] = "result"
    BY <1>2, <1>3, <2>1
  <2> QED
    BY <1>2, <1>3, <1>4, <1>5, <2>1, <2>2, Zenon
<1>9. Append(Words(4), "text") = Words(5)
  <2>1. 3 \in 0..3 /\ 4 = 3 + 1
    OBVIOUS
  <2>2. /\ Words(5)[1] = Words(4)[1] /\ Words(5)[2] = Words(4)[2] /\ Words(5)[3] = Words(4)[3]
        /\ Len(Words(5)) = 3 + 1 /\ Words(5)[3 + 1] = "text"
    BY <1>3, <2>1
  <2> QED
    BY <1>3, <1>4, <1>5, <2>1, <2>2, Zenon
<1>10. Append(Words(1), "text") = Words(2) /\ Append(Words(1), "call") = Words(3)
  BY <1>2, <1>4, <1>7
<1>11. ASSUME NEW k \in 0..5 PROVE Words(k) \in Seq(S)
  <2>1. k = 0 \/ k = 1 \/ k = 2 \/ k = 3 \/ k = 4 \/ k = 5
    OBVIOUS
  <2> QED
    BY <1>1, <1>2, <1>3, <2>1, Zenon
<1> QED
  BY <1>1, <1>2, <1>3, <1>6, <1>8, <1>9, <1>10, <1>11 DEF S

LEMMA ShownIs ==
  ASSUME NEW h \in Seq(Chunks), NEW e \in Chunks
  PROVE  /\ Append(h, e) \in Seq(Chunks) /\ Len(Append(h, e)) = Len(h) + 1
         /\ Append(h, e)[Len(h) + 1] = e /\ \A i \in DOMAIN h : Append(h, e)[i] = h[i]
         /\ Shown(Append(h, e)) = IF e \in {"finish", "error"} THEN h ELSE Append(h, e)
<1> DEFINE f == Append(h, e)  n == Len(h)
<1>1. /\ n \in Nat /\ f \in Seq(Chunks) /\ Len(f) = n + 1 /\ f[n + 1] = e
      /\ \A i \in 1..n : f[i] = h[i]
  OBVIOUS
<1>2. f # <<>> /\ Last(f) = e
  BY <1>1 DEF Last
<1>3. Front(f) = h
  <2>1. Front(f) = SubSeq(f, 1, n)
    <3>1. (n + 1) - 1 = n
      BY <1>1
    <3> HIDE DEF f, n
    <3> QED
      BY <1>1, <3>1 DEF Front
  <2> DEFINE g == SubSeq(f, 1, n)
  <2>2. g \in Seq(Chunks) /\ Len(g) = n /\ \A i \in 1..n : g[i] = f[i]
    BY <1>1
  <2> HIDE DEF f, g
  <2>3. \A i \in 1..Len(h) : g[i] = h[i]
    BY <1>1, <2>2
  <2>4. g = h
    BY <2>2, <2>3, SeqEqual
  <2> QED
    BY <2>1, <2>4 DEF g
<1>4. Shown(f) = IF e \in {"finish", "error"} THEN h ELSE f
  <2> HIDE DEF f, n
  <2> QED
    BY <1>2, <1>3 DEF Shown
<1> QED
  BY <1>1, <1>4

\* After these words an answer goes on with text, a call, its result, or ends.
NextWords(k, e) ==
  IF e = "text" THEN IF k = 0 THEN 1 ELSE IF k = 1 THEN 2 ELSE 5
  ELSE IF e = "call" THEN 3 ELSE IF e = "result" THEN 4 ELSE k
GoesOn(k, e) ==
  \/ e = "text" /\ k \in {0, 1, 4}
  \/ e = "call" /\ k = 1
  \/ e = "result" /\ k = 3
  \/ e \in {"finish", "error"}

LEMMA AnswerTells ==
  ASSUME NEW a \in Answers, NEW k, NEW n, n < Len(a), k = 2 => a[2] = "text", k = 3 => a[2] = "call",
         \/ k = 0 /\ n = 0 /\ n + 1 = 1
         \/ k = 1 /\ n = 1 /\ n + 1 = 2
         \/ k \in {2, 3} /\ n = 2 /\ n + 1 = 3
         \/ k = 4 /\ n = 3 /\ n + 1 = 4
         \/ k = 5 /\ n = 4 /\ n + 1 = 5
  PROVE  GoesOn(k, a[n + 1])
<1>1. CASE a = <<"text", "text", "finish">>
  <2>1. Len(a) = 3 /\ a[1] = "text" /\ a[2] = "text" /\ a[3] = "finish"
    BY <1>1
  <2> QED
    BY <2>1 DEF GoesOn
<1>2. CASE a = <<"text", "call", "result", "text", "finish">>
  <2>1. /\ Len(a) = 5 /\ a[1] = "text" /\ a[2] = "call" /\ a[3] = "result" /\ a[4] = "text"
        /\ a[5] = "finish"
    BY <1>2
  <2> QED
    BY <2>1 DEF GoesOn
<1>3. CASE a = <<"error">>
  <2>1. Len(a) = 1 /\ a[1] = "error"
    BY <1>3
  <2> QED
    BY <2>1 DEF GoesOn
<1>4. CASE a = <<"text", "call", "result", "error">>
  <2>1. Len(a) = 4 /\ a[1] = "text" /\ a[2] = "call" /\ a[3] = "result" /\ a[4] = "error"
    BY <1>4
  <2> QED
    BY <2>1 DEF GoesOn
<1> QED
  BY <1>1, <1>2, <1>3, <1>4, AnswerCases

LEMMA AnswerGoesOn ==
  ASSUME NEW a \in Answers, NEW k \in 0..5, NEW n \in Nat, n < Len(a),
         n = Len(Words(k)), \A i \in 1..n : Words(k)[i] = a[i]
  PROVE  GoesOn(k, a[n + 1])
<1>1. k = 0 \/ k = 1 \/ k = 2 \/ k = 3 \/ k = 4 \/ k = 5
  OBVIOUS
<1>2. \/ k = 0 /\ n = 0 /\ n + 1 = 1
      \/ k = 1 /\ n = 1 /\ n + 1 = 2
      \/ k \in {2, 3} /\ n = 2 /\ n + 1 = 3
      \/ k = 4 /\ n = 3 /\ n + 1 = 4
      \/ k = 5 /\ n = 4 /\ n + 1 = 5
  <2>1. n = Len(Words(k))
    OBVIOUS
  <2>2. \/ (k = 0 /\ n = 0) \/ (k = 1 /\ n = 1) \/ (k = 2 /\ n = 2) \/ (k = 3 /\ n = 2)
        \/ (k = 4 /\ n = 3) \/ (k = 5 /\ n = 4)
    BY <1>1, <2>1, WordsAre, Zenon
  <2>3. 0 + 1 = 1 /\ 1 + 1 = 2 /\ 2 + 1 = 3 /\ 3 + 1 = 4 /\ 4 + 1 = 5
    OBVIOUS
  <2> QED
    BY <2>2, <2>3, Zenon
<1>3. (k = 2 => a[2] = "text") /\ (k = 3 => a[2] = "call")
  <2>1. n = 2 => 2 \in 1..n
    OBVIOUS
  <2> QED
    BY <1>2, <2>1, WordsAre
<1> QED
  BY <1>2, <1>3, AnswerTells

\* The end of an answer is its last event.
LEMMA EndComesLast ==
  ASSUME NEW a \in Answers, NEW i \in 1..Len(a), a[i] \in {"finish", "error"}
  PROVE  i = Len(a)
<1>1. CASE a = <<"text", "text", "finish">>
  BY <1>1
<1>2. CASE a = <<"text", "call", "result", "text", "finish">>
  BY <1>2
<1>3. CASE a = <<"error">>
  BY <1>3
<1>4. CASE a = <<"text", "call", "result", "error">>
  BY <1>4
<1> QED
  BY <1>1, <1>2, <1>3, <1>4, AnswerCases

\* The words on screen and the next event of the answer.
LEMMA WordsGoOn ==
  ASSUME NEW a \in Answers, NEW h \in Seq(Chunks), Len(h) < Len(a),
         \A i \in DOMAIN h : h[i] = a[i], NEW k \in 0..5, Shown(h) = Words(k),
         NEW e \in Chunks, e = a[Len(h) + 1]
  PROVE  /\ GoesOn(k, e) /\ NextWords(k, e) \in 0..5
         /\ Shown(Append(h, e)) = Words(NextWords(k, e))
<1> DEFINE n == Len(h)
<1>1. n \in Nat /\ DOMAIN h = 1..n /\ Len(a) \in Nat
  BY AnswerLength
<1>2. h = Words(k)
  <2>1. ASSUME h # <<>> PROVE Last(h) \notin {"finish", "error"}
    <3>1. n \in 1..Len(a) /\ n \in DOMAIN h /\ n # Len(a)
      BY <1>1, <2>1
    <3>2. a[n] \notin {"finish", "error"}
      BY <3>1, EndComesLast
    <3> QED
      BY <3>1, <3>2 DEF Last
  <2> QED
    BY <2>1 DEF Shown
<1> HIDE DEF n
<1>3. GoesOn(k, a[n + 1])
  <2>1. n = Len(Words(k)) /\ \A i \in 1..n : Words(k)[i] = a[i]
    BY <1>1, <1>2 DEF n
  <2> QED
    BY <1>1, <2>1, AnswerGoesOn DEF n
<1>4. GoesOn(k, e)
  BY <1>3 DEF n
<1>5. NextWords(k, e) \in 0..5
  BY DEF NextWords
<1>6. Shown(Append(h, e)) = IF e \in {"finish", "error"} THEN h ELSE Append(h, e)
  BY ShownIs
<1>7. Shown(Append(h, e)) = Words(NextWords(k, e))
  <2>1. CASE e \in {"finish", "error"}
    BY <1>2, <1>6, <2>1 DEF NextWords
  <2>2. CASE e \notin {"finish", "error"}
    <3>1. Shown(Append(h, e)) = Append(Words(k), e)
      BY <1>2, <1>6, <2>2
    <3>2. \/ e = "text" /\ k = 0 /\ NextWords(k, e) = 1
          \/ e = "text" /\ k = 1 /\ NextWords(k, e) = 2
          \/ e = "text" /\ k = 4 /\ NextWords(k, e) = 5
          \/ e = "call" /\ k = 1 /\ NextWords(k, e) = 3
          \/ e = "result" /\ k = 3 /\ NextWords(k, e) = 4
      BY <1>4, <2>2 DEF GoesOn, NextWords
    <3> QED
      BY <3>1, <3>2, WordsAre
  <2> QED
    BY <2>1, <2>2
<1> QED
  BY <1>4, <1>5, <1>7

-----------------------------------------------------------------------------
(* What is heard and what is under way. *)

LEMMA CarriesMore ==
  ASSUME NEW h, NEW o, NEW a, NEW n \in Nat, Carries(h, o, a, n),
         NEW e \in Chunks, e = Event(a, n + 1)
  PROVE  Carries(h, Append(o, e), a, n + 1)
<1> DEFINE f == Append(o, e)
<1>1. h \in Seq(Chunks) /\ o \in Seq(Chunks) /\ Len(h) + Len(o) = n
  BY DEF Carries
<1>2. /\ f \in Seq(Chunks) /\ Len(f) = Len(o) + 1
      /\ \A i \in DOMAIN f : (i \in DOMAIN o /\ f[i] = o[i]) \/ (i = Len(o) + 1 /\ f[i] = e)
  BY <1>1
<1>3. Len(h) + (Len(o) + 1) = n + 1 /\ Len(h) + Len(f) = n + 1
  BY <1>1, <1>2
<1> HIDE DEF f
<1>4. \A i \in DOMAIN f : f[i] = Event(a, Len(h) + i)
  BY <1>2, <1>3 DEF Carries
<1> QED
  BY <1>1, <1>2, <1>3, <1>4 DEF Carries, f

LEMMA CarriesHead ==
  ASSUME NEW h, NEW o, NEW a \in Answers \cup {<<>>}, NEW n \in Nat, Carries(h, o, a, n),
         o # <<>>, Head(o) # "end"
  PROVE  /\ Head(o) \in Chunks /\ h \in Seq(Chunks) /\ Len(h) < Len(a) /\ Head(o) = a[Len(h) + 1]
         /\ \A i \in DOMAIN h : h[i] = a[i]
         /\ Carries(Append(h, Head(o)), Tail(o), a, n)
<1> DEFINE e == Head(o)  f == Append(h, e)  g == Tail(o)
<1>1. h \in Seq(Chunks) /\ o \in Seq(Chunks) /\ Len(h) + Len(o) = n /\ Len(a) \in Nat
  BY AnswerLength DEF Carries
<1>2. e = o[1] /\ e \in Chunks /\ 1 \in DOMAIN o /\ Len(o) \in Nat /\ Len(o) > 0
  BY <1>1
<1>3. Len(h) + 1 <= Len(a) /\ e = a[Len(h) + 1]
  <2>1. e = Event(a, Len(h) + 1)
    BY <1>2 DEF Carries
  <2> HIDE DEF e
  <2> QED
    BY <2>1 DEF Event, e
<1>4. Len(h) < Len(a)
  BY <1>1, <1>3
<1>5. /\ f \in Seq(Chunks) /\ Len(f) = Len(h) + 1
      /\ \A i \in DOMAIN f : (i \in DOMAIN h /\ f[i] = h[i]) \/ (i = Len(h) + 1 /\ f[i] = e)
  BY <1>1, <1>2
<1>6. /\ g \in Seq(Chunks) /\ Len(g) = Len(o) - 1
      /\ \A i \in DOMAIN g : i \in Nat /\ i + 1 \in DOMAIN o /\ g[i] = o[i + 1]
  BY <1>1, <1>2
<1>7. \A i \in DOMAIN h : i <= Len(a) /\ h[i] = a[i]
  BY DEF Carries
<1>8. \A i \in DOMAIN o : o[i] = Event(a, Len(h) + i)
  BY DEF Carries
<1>9. Len(f) + Len(g) = n /\ \A i \in Nat : Len(h) + (i + 1) = Len(f) + i
  BY <1>1, <1>2, <1>5, <1>6
<1> HIDE DEF e, f, g
<1>10. \A i \in DOMAIN f : i <= Len(a) /\ f[i] = a[i]
  BY <1>3, <1>5, <1>7
<1>11. \A i \in DOMAIN g : g[i] = Event(a, Len(f) + i)
  BY <1>6, <1>8, <1>9
<1>12. Carries(f, g, a, n)
  BY <1>5, <1>6, <1>9, <1>10, <1>11 DEF Carries
<1> QED
  BY <1>1, <1>2, <1>3, <1>4, <1>7, <1>12 DEF e, f, g

LEMMA CarriesEnd ==
  ASSUME NEW h, NEW a \in Answers \cup {<<>>}, NEW n \in Nat, Carries(h, <<"end">>, a, n)
  PROVE  n > Len(a)
<1>1. h \in Seq(Chunks) /\ Len(<<"end">>) = 1 /\ Len(h) + Len(<<"end">>) = n
  BY DEF Carries
<1>2. n = Len(h) + 1 /\ Len(a) \in Nat /\ Len(h) \in Nat
  BY <1>1, AnswerLength
<1>3. Event(a, n) = "end"
  <2>1. 1 \in DOMAIN <<"end">> /\ <<"end">>[1] = "end"
    OBVIOUS
  <2>2. <<"end">>[1] = Event(a, Len(h) + 1)
    BY <2>1 DEF Carries
  <2> QED
    BY <1>2, <2>1, <2>2
<1>4. ASSUME n <= Len(a) PROVE FALSE
  <2>1. a \in Answers
    BY <1>2, <1>4
  <2>2. n \in DOMAIN a /\ a[n] = "end"
    BY <1>2, <1>3, <1>4, <2>1, AnswerCases DEF Event
  <2> QED
    BY <2>1, <2>2, AnswerCases
<1> QED
  BY <1>2, <1>4

LEMMA CarriesNone ==
  /\ \A a : Carries(<<>>, <<>>, a, 0)
  /\ \A h, o, a : Carries(h, o, a, 0) => h = <<>> /\ o = <<>>
<1>1. Carries(<<>>, <<>>, <<>>, 0) /\ \A a : Carries(<<>>, <<>>, a, 0)
  BY DEF Carries
<1>2. \A h \in Seq(Chunks), o \in Seq(Chunks) : Len(h) + Len(o) = 0 => h = <<>> /\ o = <<>>
  OBVIOUS
<1> QED
  BY <1>1, <1>2 DEF Carries

-----------------------------------------------------------------------------
(* The steps of a calm client. *)

\* A turn that streams is the only thing under way.
LEMMA OneStreams ==
  ASSUME NEW t \in TuiTurns, stage'[t] = "stream", Streams(t)', loaded' # 0,
         \A u \in Turns \ TuiTurns : phase'[u] = "idle",
         \A u \in TuiTurns \ {t} : Resting(u)'
  PROVE  Steady'
<1>1. loads' = {} /\ \A u \in TuiTurns \ {t} : stage'[u] \in {"none", "over"}
  BY DEF Streams
<1>2. Resting(t)'
  BY DEF Resting
<1>3. Waiting'
  BY DEF Waiting
<1>4. \A u \in TuiTurns : Resting(u)' /\ (stage'[u] = "stream" => Streams(u)')
  BY <1>1, <1>2
<1> QED
  BY <1>1, <1>3, <1>4 DEF Steady

LEMMA FedProgress ==
  ASSUME ChatInv, NEW t \in Turns, Progress(t), Fed(t), listening[t], heard' = heard
  PROVE  Fed(t)'
<1>1. Shape /\ Local(t)
  BY DEF ChatInv
<1>2. /\ at[t] \in Nat /\ answer[t] \in Answers \cup {<<>>} /\ Len(answer[t]) \in Nat
      /\ at[t] <= Len(answer[t])
  BY <1>1, TurnTypes, AnswerLength DEF Local
<1>3. phase[t] # "done" /\ Carries(heard, out[t], answer[t], at[t])
  BY DEF Progress, AppendUser, CallModel, ModelEvent, PersistNext, CloseStream, AnswerRead, Fed, SentSoFar
<1>4. phase \in [Turns -> {"idle", "refused", "lost", "checked", "appended", "streaming", "done", "gone"}]
      /\ answer \in [Turns -> Answers \cup {<<>>}] /\ at \in [Turns -> Nat] /\ out \in [Turns -> Seq(Chunks)]
  BY <1>1 DEF Shape
<1>5. CASE AppendUser(t) \/ PersistNext(t)
  <2>1. phase'[t] # "done" /\ out'[t] = out[t] /\ answer'[t] = answer[t] /\ at'[t] = at[t]
    BY <1>3, <1>4, <1>5 DEF AppendUser, PersistNext
  <2> QED
    BY <1>3, <2>1 DEF Fed, SentSoFar
<1>6. CASE CallModel(t)
  <2>1. phase'[t] # "done" /\ out'[t] = out[t] /\ at'[t] = at[t] /\ answer[t] = <<>>
    BY <1>1, <1>4, <1>6 DEF CallModel, Local
  <2>2. at[t] = 0
    BY <1>2, <2>1
  <2>3. heard = <<>> /\ out[t] = <<>>
    BY <1>3, <2>2, CarriesNone
  <2> QED
    BY <2>1, <2>2, <2>3, CarriesNone DEF Fed, SentSoFar
<1>7. CASE ModelEvent(t)
  <2> DEFINE e == answer[t][at[t] + 1]
  <2>1. /\ phase'[t] # "done" /\ answer'[t] = answer[t] /\ at'[t] = at[t] + 1
        /\ out'[t] = Append(out[t], e) /\ at[t] < Len(answer[t])
    BY <1>3, <1>4, <1>7 DEF ModelEvent, Send
  <2>2. answer[t] \in Answers /\ at[t] + 1 \in 1..Len(answer[t])
    BY <1>1, <2>1, AnswerUnderway
  <2>3. e \in Chunks /\ e = Event(answer[t], at[t] + 1)
    BY <2>2, AnswerEvents DEF Chunks, Event
  <2> HIDE DEF e
  <2>4. Carries(heard, Append(out[t], e), answer[t], at[t] + 1)
    BY <1>2, <1>3, <2>3, CarriesMore
  <2> QED
    BY <2>1, <2>4 DEF Fed, SentSoFar
<1>8. CASE CloseStream(t)
  <2>1. /\ phase'[t] = "done" /\ answer'[t] = answer[t] /\ at'[t] = at[t]
        /\ out'[t] = Append(out[t], "end") /\ at[t] = Len(answer[t])
    BY <1>3, <1>4, <1>8 DEF CloseStream, Send, AnswerRead
  <2>2. "end" \in Chunks /\ "end" = Event(answer[t], at[t] + 1)
    BY <1>2, <2>1 DEF Chunks, Event
  <2>3. Carries(heard, Append(out[t], "end"), answer[t], at[t] + 1)
    BY <1>2, <1>3, <2>2, CarriesMore
  <2> QED
    BY <2>1, <2>3 DEF Fed, SentSoFar
<1> QED
  BY <1>5, <1>6, <1>7, <1>8 DEF Progress

\* Who goes on in the daemon, and what it leaves to the others.
LEMMA ProgressLeaves ==
  ASSUME ChatInv, NEW t \in Turns, Progress(t)
  PROVE  /\ phase[t] \in {"checked", "appended", "streaming"} /\ phase'[t] \notin {"idle", "gone"}
         /\ \A u \in Turns \ {t} : phase'[u] = phase[u] /\ out'[u] = out[u]
         /\ UNCHANGED <<sess, listening>>
<1>1. Shape
  BY DEF ChatInv
<1>2. phase \in [Turns -> {"idle", "refused", "lost", "checked", "appended", "streaming", "done", "gone"}]
      /\ out \in [Turns -> Seq(Chunks)]
  BY <1>1 DEF Shape
<1>3. CASE AppendUser(t) \/ CallModel(t) \/ PersistNext(t)
  BY <1>2, <1>3 DEF AppendUser, CallModel, PersistNext, AnswerRead
<1>4. CASE ModelEvent(t)
  BY <1>2, <1>4 DEF ModelEvent, Send
<1>5. CASE CloseStream(t)
  BY <1>2, <1>5 DEF CloseStream, AnswerRead, Send
<1> QED
  BY <1>3, <1>4, <1>5 DEF Progress

LEMMA DaemonStepSteady ==
  ASSUME ChatInv, ClientInv, Steady, DaemonStep
  PROVE  Steady'
<1>1. PICK t \in Turns : Progress(t)
  BY DEF DaemonStep
<1>2. UNCHANGED <<alive, session, transcript, isStreaming, status, abortRef, stage, loads, loaded, calm, heard>>
  BY DEF DaemonStep, tuiVars
<1>3. /\ phase[t] \in {"checked", "appended", "streaming"} /\ phase'[t] \notin {"idle", "gone"}
      /\ \A u \in Turns \ {t} : phase'[u] = phase[u] /\ out'[u] = out[u]
      /\ UNCHANGED <<sess, listening>>
  BY <1>1, ProgressLeaves
<1>4. t \in TuiTurns /\ stage[t] = "stream"
  <2>1. t \in TuiTurns
    BY <1>3 DEF Steady
  <2>2. stage[t] \in {"none", "stream", "refresh", "over"} /\ Resting(t)
    BY <2>1, ClientParts DEF Steady
  <2> QED
    BY <1>3, <2>1, <2>2 DEF Resting
<1>5. Streams(t)
  BY <1>4 DEF Steady
<1>6. Fed(t)'
  BY <1>1, <1>2, <1>5, FedProgress DEF Streams
<1>7. Streams(t)'
  BY <1>2, <1>3, <1>5, <1>6 DEF Streams
<1>8. \A u \in TuiTurns \ {t} : Resting(u)'
  BY <1>2, <1>3, TuiAssumption DEF Steady, Resting
<1>9. (\A u \in Turns \ TuiTurns : phase'[u] = "idle") /\ loaded' # 0
  BY <1>2, <1>3, <1>4, <1>5 DEF Steady, Streams
<1> QED
  BY <1>2, <1>4, <1>7, <1>8, <1>9, OneStreams

\* The other turns come and go, and this client's are left alone.
LEMMA KeptSteady ==
  ASSUME Steady, UNCHANGED <<session, transcript, isStreaming, status, stage, loads, loaded, heard, rows>>,
         \A t \in Turns \ TuiTurns : phase'[t] = "idle",
         \A t \in TuiTurns : /\ phase'[t] = phase[t] /\ out'[t] = out[t] /\ sess'[t] = sess[t]
                             /\ at'[t] = at[t] /\ answer'[t] = answer[t]
                             /\ (listening[t] => listening'[t])
  PROVE  Steady'
<1>1. ASSUME NEW t \in TuiTurns PROVE Resting(t)' /\ (stage'[t] = "stream" => Streams(t)')
  <2>1. Resting(t)'
    BY DEF Steady, Resting
  <2>2. ASSUME stage'[t] = "stream" PROVE Streams(t)'
    <3>1. Streams(t)
      BY <2>2 DEF Steady
    <3>2. Fed(t)'
      BY <3>1 DEF Streams, Fed, SentSoFar
    <3> QED
      BY <3>1, <3>2 DEF Streams
  <2> QED
    BY <2>1, <2>2
<1>2. \A l \in loads' : Loading(l)'
  BY DEF Steady, Loading
<1>3. Waiting' <=> Waiting
  BY DEF Waiting
<1>4. session' # None /\ ~Waiting' => Settled'
  BY <1>3 DEF Steady, Settled
<1> QED
  BY <1>1, <1>2, <1>4 DEF Steady

LEMMA OthersStepSteady ==
  ASSUME ChatInv, ClientInv, Steady, OthersStep, calm', alive
  PROVE  Steady'
<1>1. /\ calm' = (calm /\ \A t \in Turns \ TuiTurns : phase'[t] = "idle")
      /\ UNCHANGED <<alive, session, transcript, isStreaming, status, abortRef, stage, loads, loaded, heard>>
  BY DEF OthersStep
<1>2. \A t \in Turns \ TuiTurns : phase'[t] = "idle"
  BY <1>1, Zenon
<1>3. /\ phase \in [Turns -> {"idle", "refused", "lost", "checked", "appended", "streaming", "done", "gone"}]
      /\ out \in [Turns -> Seq(Chunks)]
  BY DEF ChatInv, Shape
<1>4. CASE \E t \in Turns : StandStill(t)
  <2>1. PICK t \in Turns : StandStill(t)
    BY <1>4
  <2>2. phase[t] = "streaming" /\ phase'[t] = "gone" /\ ~listening[t]
    BY <1>3, <2>1 DEF StandStill
  <2>3. t \in TuiTurns
    BY <1>2, <2>2
  <2>4. stage[t] \in {"none", "stream", "refresh", "over"} /\ Resting(t) /\ (stage[t] = "stream" => Streams(t))
    BY <2>3, ClientParts DEF Steady
  <2> QED
    BY <2>2, <2>4 DEF Resting, Streams
<1>5. CASE \E t \in Turns \ TuiTurns, s \in Sessions : Begin(t, s)
  <2>1. PICK t \in Turns \ TuiTurns, s \in Sessions : Begin(t, s)
    BY <1>5
  <2>2. phase'[t] \in {"checked", "refused"}
    BY <1>3, <2>1 DEF Begin
  <2> QED
    BY <1>2, <2>2
<1>6. CASE /\ \E t \in Turns :
                /\ t \notin TuiTurns \/ ~alive
                /\ \/ listening[t] /\ HangUp({t})
                   \/ out[t] # <<>> /\ out' = [out EXCEPT ![t] = Tail(@)] /\ UNCHANGED listening
           /\ UNCHANGED <<exists, rows, phase, sess, answer, at, saved, crashes, disturbed>>
  <2>1. PICK t \in Turns \ TuiTurns :
          \/ HangUp({t})
          \/ out' = [out EXCEPT ![t] = Tail(@)] /\ UNCHANGED listening
    BY <1>6
  <2>2. ASSUME NEW u \in TuiTurns PROVE out'[u] = out[u] /\ (listening[u] => listening'[u])
    <3>1. u \in Turns /\ u # t
      BY <2>1, <2>2, TuiAssumption
    <3>2. CASE HangUp({t})
      <4>1. out'[u] = out[u] /\ listening'[u] = (listening[u] /\ u \notin {t})
        BY <3>1, <3>2 DEF HangUp
      <4>2. listening[u] => listening'[u]
        BY <3>1, <4>1, Zenon
      <4> QED
        BY <4>1, <4>2
    <3>3. CASE out' = [out EXCEPT ![t] = Tail(@)] /\ UNCHANGED listening
      BY <1>3, <3>1, <3>3
    <3> QED
      BY <2>1, <3>2, <3>3
  <2> QED
    BY <1>1, <1>2, <1>6, <2>2, KeptSteady
<1> QED
  BY <1>4, <1>5, <1>6 DEF OthersStep

\* What a load has read is what it brings.
LEMMA LoadStepSteady ==
  ASSUME ChatInv, ClientInv, Steady, NEW l \in loads, LoadRead(l) \/ LoadDone(l)
  PROVE  Steady'
<1>1. /\ loads = {l} /\ (l.got => l.rows = rows[l.session]) /\ l \in Loads
      /\ \A t \in TuiTurns : stage[t] # "stream" /\ (stage[t] = "refresh" <=> l.turn = t)
  BY ClientParts DEF Steady, Loading
<1>2. l.n \in Nat /\ l.n < loaded /\ l.session \in Sessions /\ loaded \in Nat
  BY <1>1 DEF ClientInv, ClientShape, ClientTurns, Loads
<1>3. \A t \in TuiTurns : Resting(t)
  BY DEF Steady
<1>4. \A t \in Turns \ TuiTurns : phase[t] = "idle"
  BY DEF Steady
<1>5. CASE LoadRead(l)
  <2>0. PICK m : m = [l EXCEPT !.got = TRUE, !.rows = rows[l.session]]
    OBVIOUS
  <2>1. /\ loads' = (loads \ {l}) \cup {m}
        /\ UNCHANGED <<chatVars, alive, session, transcript, isStreaming, status, abortRef, stage, loaded, calm, heard>>
    BY <1>5, <2>0 DEF LoadRead
  <2>2. m.rows = rows[l.session] /\ m.session = l.session /\ m.turn = l.turn
    BY <1>1, <2>0 DEF Loads
  <2>3. loads' = {m}
    BY <1>1, <2>1
  <2>4. UNCHANGED <<rows, phase, out>>
    BY <2>1 DEF chatVars
  <2>5. Loading(m)'
    BY <1>1, <2>1, <2>2, <2>3, <2>4 DEF Loading
  <2>6. \A t \in TuiTurns : Resting(t)' /\ stage'[t] # "stream"
    BY <1>1, <1>3, <2>1, <2>3, <2>4 DEF Resting
  <2>7. Waiting'
    BY <2>3 DEF Waiting
  <2>8. loaded' = 0 => session' = None
    BY <2>1 DEF Steady
  <2>9. \A t \in Turns \ TuiTurns : phase'[t] = "idle"
    BY <1>4, <2>4
  <2> QED
    BY <2>3, <2>5, <2>6, <2>7, <2>8, <2>9 DEF Steady
<1>6. CASE LoadDone(l)
  <2>1. /\ l.got /\ loads' = loads \ {l} /\ session' = l.session /\ transcript' = FromHistory(l.rows)
        /\ isStreaming' = FALSE /\ status' = "ready" /\ SendEnds(l.turn)
        /\ UNCHANGED <<chatVars, loaded>>
    BY <1>6 DEF LoadDone
  <2>2. loads' = {} /\ UNCHANGED <<rows, phase, out>>
    BY <1>1, <2>1 DEF chatVars
  <2>3. stage \in [TuiTurns -> {"none", "stream", "refresh", "over"}]
    BY ClientParts
  <2>4. ASSUME NEW t \in TuiTurns
        PROVE  \/ stage'[t] = stage[t] /\ stage[t] \in {"none", "over"}
               \/ stage'[t] = "over" /\ stage[t] = "refresh"
    <3>1. CASE l.turn = None
      <4>1. stage' = stage
        BY <2>1, <3>1 DEF SendEnds
      <4>2. stage[t] # "refresh"
        BY <1>1, <3>1, TuiAssumption
      <4> QED
        BY <1>1, <2>3, <4>1, <4>2
    <3>2. CASE l.turn # None
      <4>1. stage' = [stage EXCEPT ![l.turn] = "over"]
        BY <2>1, <3>2 DEF SendEnds
      <4> QED
        BY <1>1, <2>3, <4>1
    <3> QED
      BY <3>1, <3>2
  <2>5. \A t \in TuiTurns : Resting(t)' /\ stage'[t] # "stream"
    BY <1>3, <2>2, <2>4 DEF Resting
  <2>6. Settled'
    BY <1>1, <2>1, <2>2 DEF Settled
  <2>7. loaded' # 0
    BY <1>2, <2>1
  <2> QED
    BY <1>4, <2>2, <2>5, <2>6, <2>7 DEF Steady
<1> QED
  BY <1>5, <1>6

\* An event on screen, as the next of the answer.
LEMMA EventShown ==
  ASSUME NEW t \in Turns, NEW k \in 0..5, NEW e, OnTop(transcript, t, k), GoesOn(k, e), Reduce(t, e)
  PROVE  OnTop(transcript', t, NextWords(k, e))
<1>1. CASE e = "text"
  <2>1. k \in {0, 1, 4} /\ transcript' = AppendDelta(transcript, t, "text")
    BY <1>1 DEF GoesOn, Reduce
  <2>2. NextWords(k, e) = IF k = 0 THEN 1 ELSE IF k = 1 THEN 2 ELSE 5
    BY <1>1 DEF NextWords
  <2> QED
    BY <2>1, <2>2, TextShown
<1>2. CASE e = "call"
  <2>1. k = 1 /\ transcript' = AppendTool(transcript, t, "call") /\ NextWords(k, e) = 3
    BY <1>2 DEF GoesOn, Reduce, NextWords
  <2> QED
    BY <2>1, CallShown
<1>3. CASE e = "result"
  <2>1. k = 3 /\ transcript' = AppendTool(transcript, t, "result") /\ NextWords(k, e) = 4
    BY <1>3 DEF GoesOn, Reduce, NextWords
  <2> QED
    BY <2>1, ResultShown
<1>4. CASE e = "finish"
  <2>1. transcript' = FinishEntries(transcript) /\ NextWords(k, e) = k
    BY <1>4 DEF Reduce, NextWords
  <2> QED
    BY <2>1, FinishShown
<1>5. CASE e = "error"
  <2>1. transcript' = transcript /\ NextWords(k, e) = k
    BY <1>5 DEF Reduce, NextWords
  <2> QED
    BY <2>1
<1> QED
  BY <1>1, <1>2, <1>3, <1>4, <1>5 DEF GoesOn

LEMMA ChunkArrivesSteady ==
  ASSUME ChatInv, ClientInv, Steady, NEW t \in TuiTurns, ChunkArrives(t)
  PROVE  Steady'
<1> DEFINE e == Head(out[t])
<1>1. /\ stage[t] = "stream" /\ out[t] # <<>> /\ e \notin {"end", "cut"} /\ Reduce(t, e)
      /\ out' = [out EXCEPT ![t] = Tail(@)] /\ heard' = Append(heard, e)
      /\ UNCHANGED <<exists, rows, phase, sess, answer, at, saved, listening, crashes, disturbed>>
      /\ UNCHANGED <<alive, session, abortRef, stage, loads, loaded, calm>>
  BY DEF ChunkArrives
<1>2. /\ t \in Turns /\ at[t] \in Nat /\ answer[t] \in Answers \cup {<<>>}
      /\ out \in [Turns -> Seq(Chunks)]
  BY TuiAssumption, TurnTypes DEF ChatInv, Shape
<1>3. Streams(t)
  BY <1>1 DEF Steady
<1>4. PICK k \in 0..5 : Shown(heard) = Words(k) /\ OnTop(transcript, t, k)
  BY <1>3 DEF Streams
<1> DEFINE a == answer[t]  n == SentSoFar(t)
<1>5. n \in Nat /\ Carries(heard, out[t], a, n)
  BY <1>2, <1>3 DEF Streams, Fed, SentSoFar
<1>6. out'[t] = Tail(out[t]) /\ \A u \in Turns \ {t} : out'[u] = out[u]
  BY <1>1, <1>2
<1>7. SentSoFar(t)' = n /\ answer'[t] = a
  BY <1>1 DEF SentSoFar
<1> HIDE DEF n
<1>8. /\ e \in Chunks /\ heard \in Seq(Chunks) /\ Len(heard) < Len(a) /\ e = a[Len(heard) + 1]
      /\ \A i \in DOMAIN heard : heard[i] = a[i]
      /\ Carries(Append(heard, e), Tail(out[t]), a, n)
  <2>1. e # "end"
    BY <1>1
  <2> QED
    BY <1>1, <1>2, <1>5, <2>1, CarriesHead
<1>9. a \in Answers
  <2>1. Len(heard) \in Nat
    BY <1>8
  <2>2. ~(Len(heard) < Len(<<>>))
    BY <2>1
  <2> QED
    BY <1>2, <1>8, <2>2
<1> HIDE DEF e, a
<1>10. /\ GoesOn(k, e) /\ NextWords(k, e) \in 0..5
       /\ Shown(Append(heard, e)) = Words(NextWords(k, e))
  BY <1>4, <1>8, <1>9, WordsGoOn
<1>11. OnTop(transcript', t, NextWords(k, e))
  BY <1>1, <1>2, <1>4, <1>10, EventShown
<1>12. Fed(t)'
  BY <1>1, <1>6, <1>7, <1>8 DEF Fed
<1>13. \E j \in 0..5 : Shown(heard') = Words(j) /\ OnTop(transcript', t, j)
  BY <1>1, <1>10, <1>11
<1>14. Streams(t)'
  BY <1>1, <1>3, <1>12, <1>13 DEF Streams
<1>15. \A u \in TuiTurns \ {t} : Resting(u)'
  BY <1>1, <1>6, TuiAssumption DEF Steady, Resting
<1>16. (\A u \in Turns \ TuiTurns : phase'[u] = "idle") /\ loaded' # 0
  BY <1>1, <1>3 DEF Steady, Streams
<1> QED
  BY <1>1, <1>14, <1>15, <1>16, OneStreams

\* A load under way with nothing else.
LEMMA OneLoads ==
  ASSUME NEW l, loads' = {l}, ~l.got, loaded' # 0,
         \A u \in Turns \ TuiTurns : phase'[u] = "idle",
         \A u \in TuiTurns : /\ stage'[u] # "stream" /\ (stage'[u] = "refresh" <=> l.turn = u)
                             /\ Resting(u)'
  PROVE  Steady'
<1>1. Loading(l)'
  BY DEF Loading
<1>2. Waiting'
  BY DEF Waiting
<1> QED
  BY <1>1, <1>2 DEF Steady

LEMMA LoadIs ==
  ASSUME NEW why, NEW t, NEW s, loads = {}, loaded \in Nat, StartLoad(why, t, s)
  PROVE  \E l : loads' = {l} /\ ~l.got /\ l.turn = t /\ loaded' # 0
<1> DEFINE l == [n |-> loaded, why |-> why, turn |-> t, session |-> s, got |-> FALSE, rows |-> <<>>]
<1>1. loads' = {l} /\ loaded' = loaded + 1
  BY DEF StartLoad
<1>2. ~l.got /\ l.turn = t
  OBVIOUS
<1> HIDE DEF l
<1> QED
  BY <1>1, <1>2

LEMMA StreamResolvesSteady ==
  ASSUME ChatInv, ClientInv, Steady, NEW t \in TuiTurns, StreamResolves(t)
  PROVE  Steady'
<1>1. /\ stage[t] = "stream" /\ out[t] = <<"end">> /\ HangUp({t})
      /\ stage' = [stage EXCEPT ![t] = "refresh"] /\ StartLoad("refresh", t, sess[t])
      /\ phase' = phase
  BY DEF StreamResolves
<1>2. /\ t \in Turns /\ at[t] \in Nat /\ answer[t] \in Answers \cup {<<>>}
      /\ at[t] <= Len(answer[t]) /\ Len(answer[t]) \in Nat
  BY TuiAssumption, TurnTypes, AnswerLength DEF ChatInv, Local
<1>3. Streams(t)
  BY <1>1 DEF Steady
<1>4. phase[t] = "done"
  <2>1. SentSoFar(t) \in Nat /\ Carries(heard, <<"end">>, answer[t], SentSoFar(t))
    BY <1>1, <1>2, <1>3 DEF Streams, Fed, SentSoFar
  <2>2. SentSoFar(t) > Len(answer[t])
    BY <1>2, <2>1, CarriesEnd
  <2> QED
    BY <1>2, <2>2 DEF SentSoFar
<1>5. loads = {} /\ loaded \in Nat /\ \A u \in TuiTurns \ {t} : stage[u] \in {"none", "over"}
  BY <1>3, ClientParts DEF Streams
<1>6. PICK l : loads' = {l} /\ ~l.got /\ l.turn = t /\ loaded' # 0
  BY <1>1, <1>5, LoadIs
<1>7. stage \in [TuiTurns -> {"none", "stream", "refresh", "over"}]
  BY ClientParts
<1>8. stage'[t] = "refresh" /\ \A u \in TuiTurns \ {t} : stage'[u] = stage[u]
  BY <1>1, <1>7
<1>9. \A u \in TuiTurns \ {t} : out'[u] = out[u]
  BY <1>1, TuiAssumption DEF HangUp
<1>10. Resting(t)' /\ \A u \in TuiTurns \ {t} : Resting(u)'
  BY <1>1, <1>4, <1>5, <1>6, <1>8, <1>9 DEF Steady, Resting
<1>11. \A u \in TuiTurns : stage'[u] # "stream" /\ (stage'[u] = "refresh" <=> l.turn = u)
  BY <1>5, <1>6, <1>8
<1>12. \A u \in Turns \ TuiTurns : phase'[u] = "idle"
  BY <1>1 DEF Steady
<1> QED
  BY <1>6, <1>10, <1>11, <1>12, OneLoads

\* The user waited: nothing is under way.
LEMMA NobodyWaits ==
  ASSUME ~Waiting, ClientInv
  PROVE  loads = {} /\ \A u \in TuiTurns : stage[u] \in {"none", "over"}
  BY ClientParts DEF Waiting

LEMMA SwitchSteady ==
  ASSUME ChatInv, ClientInv, Steady, NEW s \in Sessions, SwitchToSession(s), calm'
  PROVE  Steady'
<1>1. /\ StartLoad("switch", None, s) /\ calm' = (calm /\ ~Waiting)
      /\ UNCHANGED <<chatVars, stage>>
  BY DEF SwitchToSession
<1>2. ~Waiting
  BY <1>1, Zenon
<1>3. loads = {} /\ loaded \in Nat /\ \A u \in TuiTurns : stage[u] \in {"none", "over"}
  BY <1>2, NobodyWaits, ClientParts
<1>4. PICK l : loads' = {l} /\ ~l.got /\ l.turn = None /\ loaded' # 0
  BY <1>1, <1>3, LoadIs
<1>5. UNCHANGED <<phase, out, stage>>
  BY <1>1 DEF chatVars
<1>6. \A u \in TuiTurns : Resting(u)'
  BY <1>3, <1>5 DEF Steady, Resting
<1>7. \A u \in TuiTurns : stage'[u] # "stream" /\ (stage'[u] = "refresh" <=> l.turn = u)
  BY <1>3, <1>4, <1>5, TuiAssumption
<1>8. \A u \in Turns \ TuiTurns : phase'[u] = "idle"
  BY <1>5 DEF Steady
<1> QED
  BY <1>4, <1>6, <1>7, <1>8, OneLoads

LEMMA BootstrapSteady ==
  ASSUME ChatInv, ClientInv, Steady, NEW s \in Sessions, Bootstrap(s)
  PROVE  Steady'
<1>1. loaded = 0 /\ StartLoad("boot", None, s) /\ UNCHANGED <<phase, out, stage>>
  BY DEF Bootstrap
<1>2. loads = {}
  <2>1. ASSUME NEW l \in loads PROVE FALSE
    <3>1. l.n \in Nat /\ l.n < loaded
      BY DEF ClientInv, ClientShape, ClientTurns, Loads
    <3> QED
      BY <1>1, <3>1
  <2> QED
    BY <2>1
<1>3. \A u \in TuiTurns : Resting(u) /\ stage[u] # "stream" /\ stage[u] # "refresh"
  BY <1>1, <1>2, ClientParts DEF Steady, Resting
<1>4. PICK l : loads' = {l} /\ ~l.got /\ l.turn = None /\ loaded' # 0
  BY <1>1, <1>2, LoadIs
<1>5. \A u \in TuiTurns : Resting(u)'
  BY <1>1, <1>3 DEF Resting
<1>6. \A u \in TuiTurns : stage'[u] # "stream" /\ (stage'[u] = "refresh" <=> l.turn = u)
  BY <1>1, <1>3, <1>4, TuiAssumption
<1>7. \A u \in Turns \ TuiTurns : phase'[u] = "idle"
  BY <1>1 DEF Steady
<1> QED
  BY <1>4, <1>5, <1>6, <1>7, OneLoads

LEMMA SendMessageSteady ==
  ASSUME ChatInv, ClientInv, Connections, Steady, NEW t \in TuiTurns, SendMessage(t), calm'
  PROVE  Steady'
<1> DEFINE x == Entry("user", "complete", TRUE, t, <<"message">>)
<1>1. /\ stage[t] = "none" /\ session # None /\ Begin(t, session)
      /\ transcript' = Append(transcript, x) /\ heard' = <<>>
      /\ stage' = [stage EXCEPT ![t] = "stream"] /\ calm' = (calm /\ ~Waiting)
      /\ UNCHANGED <<session, loads, loaded>>
  BY DEF SendMessage
<1>2. ~Waiting
  BY <1>1, Zenon
<1>3. loads = {} /\ \A u \in TuiTurns : stage[u] \in {"none", "over"}
  BY <1>2, NobodyWaits
<1>4. transcript = FromHistory(rows[session])
  BY <1>1, <1>2 DEF Steady, Settled
<1>5. /\ t \in Turns /\ session \in Sessions /\ rows[session] \in Seq(Rows)
      /\ phase \in [Turns -> {"idle", "refused", "lost", "checked", "appended", "streaming", "done", "gone"}]
      /\ sess \in [Turns -> Sessions \cup {None}]
  BY <1>1, ClientParts, TuiAssumption DEF ChatInv, Shape
<1>6. OnTop(transcript', t, 0)
  BY <1>1, <1>4, <1>5, MessageShown
<1>7. phase[t] = "idle" /\ out[t] = <<>>
  BY <1>1 DEF Steady, Resting
<1>8. answer[t] = <<>> /\ at[t] = 0
  <2>1. at[t] \in Nat /\ answer[t] = <<>> /\ at[t] <= Len(answer[t])
    BY <1>5, <1>7, TurnTypes DEF ChatInv, Local
  <2>2. Len(<<>>) = 0
    OBVIOUS
  <2> QED
    BY <2>1, <2>2
<1>9. UNCHANGED <<rows, answer, at, out>>
  BY <1>1 DEF Begin
<1>10. /\ phase'[t] \in {"checked", "refused"} /\ \A u \in Turns \ {t} : phase'[u] = phase[u]
       /\ sess'[t] = session
  BY <1>1, <1>5 DEF Begin
<1>11. listening'[t]
  <2>1. listening' = [listening EXCEPT ![t] = TRUE]
    BY <1>1 DEF Begin
  <2> QED
    BY <1>5, <2>1 DEF Connections
<1>12. Fed(t)'
  BY <1>1, <1>7, <1>8, <1>9, <1>10, CarriesNone DEF Fed, SentSoFar
<1>13. stage \in [TuiTurns -> {"none", "stream", "refresh", "over"}]
  BY ClientParts
<1>14. stage'[t] = "stream" /\ \A u \in TuiTurns \ {t} : stage'[u] = stage[u]
  BY <1>1, <1>13
<1>15. \E k \in 0..5 : Shown(heard') = Words(k) /\ OnTop(transcript', t, k)
  <2>1. Shown(heard') = Words(0)
    BY <1>1, WordsKnown DEF Shown
  <2> QED
    BY <1>6, <2>1
<1>16. Streams(t)'
  BY <1>1, <1>3, <1>10, <1>11, <1>12, <1>14, <1>15 DEF Streams
<1>17. \A u \in TuiTurns \ {t} : Resting(u)'
  BY <1>3, <1>9, <1>10, <1>14, TuiAssumption DEF Steady, Resting
<1>18. (\A u \in Turns \ TuiTurns : phase'[u] = "idle") /\ loaded' # 0
  BY <1>1, <1>10 DEF Steady
<1> QED
  BY <1>14, <1>16, <1>17, <1>18, OneStreams

LEMMA ConnectionsKept ==
  ASSUME Connections, [TuiNext]_allVars
  PROVE  Connections'
<1>1. ASSUME UNCHANGED listening PROVE Connections'
  BY <1>1 DEF Connections
<1>2. ASSUME NEW ts, HangUp(ts) PROVE Connections'
  BY <1>2, Zenon DEF HangUp, Connections
<1>3. ASSUME NEW t, NEW s, Begin(t, s) PROVE Connections'
  BY <1>3 DEF Begin, Connections
<1>4. CASE DaemonStep
  BY <1>1, <1>4 DEF DaemonStep, Progress, AppendUser, CallModel, ModelEvent, PersistNext, CloseStream
<1>5. CASE OthersStep
  BY <1>1, <1>2, <1>3, <1>5 DEF OthersStep, StandStill
<1>6. CASE DaemonCrash
  BY <1>1, <1>6 DEF DaemonCrash, Crash
<1>7. CASE LoadStep
  BY <1>1, <1>7 DEF LoadStep, LoadRead, LoadDone, LoadFails, chatVars
<1>8. CASE TurnStep
  BY <1>1, <1>2, <1>8 DEF TurnStep, ChunkArrives, StreamResolves, StreamRejects
<1>9. CASE UserStep
  <2>1. CASE \E s \in Sessions : Bootstrap(s) \/ SwitchToSession(s)
    BY <1>1, <2>1 DEF Bootstrap, SwitchToSession, chatVars
  <2>2. CASE \E t \in TuiTurns : SendMessage(t) \/ InterruptTurn(t)
    BY <1>2, <1>3, <2>2 DEF SendMessage, InterruptTurn
  <2>3. CASE Exit
    <3>1. HangUp(TuiTurns) \/ UNCHANGED listening
      BY <2>3 DEF Exit
    <3> QED
      BY <1>1, <1>2, <3>1
  <2> QED
    BY <1>9, <2>1, <2>2, <2>3 DEF UserStep
<1>10. CASE UNCHANGED allVars
  BY <1>1, <1>10 DEF allVars, chatVars
<1> QED
  BY <1>4, <1>5, <1>6, <1>7, <1>8, <1>9, <1>10 DEF TuiNext

LEMMA CalmInit ==
  ASSUME TuiInit
  PROVE  CalmInv
<1>1. /\ phase = [t \in Turns |-> "idle"] /\ out = [t \in Turns |-> <<>>]
      /\ listening = [t \in Turns |-> FALSE] /\ stage = [t \in TuiTurns |-> "none"]
      /\ loads = {} /\ session = None
  BY DEF TuiInit, ChatInit
<1>2. Connections
  BY <1>1 DEF Connections
<1>3. \A t \in TuiTurns : Resting(t) /\ stage[t] # "stream"
  BY <1>1, TuiAssumption DEF Resting
<1>4. Steady
  BY <1>1, <1>3 DEF Steady
<1> QED
  BY <1>2, <1>4 DEF CalmInv

\* Calm is kept until something disturbs it, and with it what a calm user sees.
LEMMA CalmNext ==
  ASSUME ChatInv, ClientInv, CalmInv, [TuiNext]_allVars
  PROVE  CalmInv'
<1>1. Connections /\ Connections'
  BY ConnectionsKept DEF CalmInv
<1> SUFFICES ASSUME calm', alive'
             PROVE  Steady'
  BY <1>1 DEF CalmInv
<1>2. CASE DaemonStep
  <2>1. calm' = calm /\ alive' = alive
    BY <1>2 DEF DaemonStep, tuiVars
  <2> QED
    BY <1>2, <2>1, DaemonStepSteady DEF CalmInv
<1>3. CASE OthersStep
  <2>1. calm /\ alive
    <3>1. calm' = (calm /\ \A t \in Turns \ TuiTurns : phase'[t] = "idle") /\ alive' = alive
      BY <1>3 DEF OthersStep
    <3>2. calm
      BY <3>1, Zenon
    <3> QED
      BY <3>1, <3>2
  <2> QED
    BY <1>3, <2>1, OthersStepSteady DEF CalmInv
<1>4. CASE DaemonCrash
  BY <1>4 DEF DaemonCrash
<1>5. CASE LoadStep
  <2>1. PICK l \in loads : LoadRead(l) \/ LoadDone(l) \/ LoadFails(l)
    BY <1>5 DEF LoadStep
  <2>2. (LoadRead(l) \/ LoadDone(l)) /\ calm' = calm /\ alive' = alive
    BY <2>1 DEF LoadRead, LoadDone, LoadFails
  <2> QED
    BY <2>1, <2>2, LoadStepSteady DEF CalmInv
<1>6. CASE TurnStep
  <2>1. PICK t \in TuiTurns : ChunkArrives(t) \/ StreamResolves(t) \/ StreamRejects(t)
    BY <1>6 DEF TurnStep
  <2>2. (ChunkArrives(t) \/ StreamResolves(t)) /\ calm' = calm /\ alive' = alive
    BY <2>1 DEF ChunkArrives, StreamResolves, StreamRejects
  <2> QED
    BY <2>1, <2>2, ChunkArrivesSteady, StreamResolvesSteady DEF CalmInv
<1>7. CASE UserStep
  <2>1. CASE \E s \in Sessions : Bootstrap(s)
    BY <2>1, BootstrapSteady DEF CalmInv, Bootstrap
  <2>2. CASE \E s \in Sessions : SwitchToSession(s)
    <3>1. PICK s \in Sessions : SwitchToSession(s)
      BY <2>2
    <3>2. calm' = (calm /\ ~Waiting) /\ alive' = alive
      BY <3>1 DEF SwitchToSession
    <3>3. calm
      BY <3>2, Zenon
    <3> QED
      BY <3>1, <3>2, <3>3, SwitchSteady DEF CalmInv
  <2>3. CASE \E t \in TuiTurns : SendMessage(t)
    <3>1. PICK t \in TuiTurns : SendMessage(t)
      BY <2>3
    <3>2. calm' = (calm /\ ~Waiting) /\ alive' = alive
      BY <3>1 DEF SendMessage
    <3>3. calm
      BY <3>2, Zenon
    <3> QED
      BY <1>1, <3>1, <3>2, <3>3, SendMessageSteady DEF CalmInv
  <2>4. CASE \E t \in TuiTurns : InterruptTurn(t)
    BY <2>4 DEF InterruptTurn
  <2>5. CASE Exit
    BY <2>5 DEF Exit
  <2> QED
    BY <1>7, <2>1, <2>2, <2>3, <2>4, <2>5 DEF UserStep
<1>8. CASE UNCHANGED allVars
  <2>1. /\ UNCHANGED <<session, transcript, isStreaming, status, stage, loads, loaded, heard, rows, phase,
                       out, sess, at, answer, listening, calm, alive>>
    BY <1>8 DEF allVars, chatVars, tuiVars
  <2>2. Steady
    BY <2>1 DEF CalmInv
  <2>3. \A t \in Turns \ TuiTurns : phase'[t] = "idle"
    BY <2>1, <2>2 DEF Steady
  <2> QED
    BY <2>1, <2>2, <2>3, KeptSteady
<1> QED
  BY <1>2, <1>3, <1>4, <1>5, <1>6, <1>7, <1>8 DEF TuiNext

LEMMA CalmScreen ==
  ASSUME CalmInv
  PROVE  CalmUserSeesConversation
<1> SUFFICES ASSUME calm, alive, session # None
             PROVE  /\ \A t \in TuiTurns : stage[t] = "stream" =>
                         sess[t] = session /\ OnScreen = Shown(heard)
                    /\ ~Waiting => transcript = FromHistory(rows[session]) /\ ~isStreaming
                                   /\ status = "ready"
  BY DEF CalmUserSeesConversation
<1>1. Steady
  BY DEF CalmInv
<1>2. ASSUME NEW t \in TuiTurns, stage[t] = "stream"
      PROVE  sess[t] = session /\ OnScreen = Shown(heard)
  <2>1. Streams(t)
    BY <1>1, <1>2 DEF Steady
  <2>2. PICK k \in 0..5 : Shown(heard) = Words(k) /\ OnTop(transcript, t, k)
    BY <2>1 DEF Streams
  <2>3. OnScreen = Words(k)
    BY <2>2, ScreenReads
  <2> QED
    BY <2>1, <2>2, <2>3 DEF Streams
<1>3. ~Waiting => transcript = FromHistory(rows[session]) /\ ~isStreaming /\ status = "ready"
  BY <1>1 DEF Steady, Settled
<1> QED
  BY <1>2, <1>3

\* A user who waits for the client, on a daemon that answers, sees the
\* conversation: each chunk once and in order under its session while a turn
\* streams, and the rows of the store when nothing is under way
\* (tui/app.tsx:168, tui/transcript-builders.ts:92).
THEOREM CalmUserServed == TuiSpec => []CalmUserSeesConversation
<1>1. TuiInit => ChatInv /\ ClientInv /\ CalmInv
  BY InitInv, CalmInit
<1>2. ChatInv /\ ClientInv /\ CalmInv /\ [TuiNext]_allVars => (ChatInv /\ ClientInv /\ CalmInv)'
  BY NextInv, CalmNext
<1>3. CalmInv => CalmUserSeesConversation
  BY CalmScreen
<1> QED
  BY <1>1, <1>2, <1>3, PTL DEF TuiSpec

==============================================================================
