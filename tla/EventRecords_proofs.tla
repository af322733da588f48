------------------------ MODULE EventRecords_proofs ------------------------
(***************************************************************************)
(* Theorems about EventRecords: the tables keep their shape, every         *)
(* committed envelope can be hydrated, and readers get each event as it    *)
(* was accepted, for any offers and any failures.                          *)
(***************************************************************************)
EXTENDS EventRecords, FiniteSetTheorems, TLAPS

\* What the open transaction has written, by the step it is at.
Grown == work.next = db.next + 1 /\ work.rows[db.next].type = txn.type

WorkInv ==
  /\ step \in {"idle", "envelope"} => work = db
  /\ step \in {"context", "payload"} =>
       /\ Grown
       /\ \A i \in DOMAIN db.rows : Hydrates(work, i)
  /\ step = "list" => work.next = db.next + 1
  /\ step \in {"list", "commit"} => \A i \in DOMAIN work.rows : Hydrates(work, i)

\* The event being appended went through validation.
TxnInv ==
  step # "idle" => /\ txn.type \in Types
                   /\ txn.at \in Clock \union {Null}
                   /\ Required(txn.type) \subseteq DOMAIN txn.meta
                   /\ \A f \in DOMAIN txn.meta : txn.meta[f] # Null

IsTables(t) == t = [next |-> t.next, rows |-> t.rows, contexts |-> t.contexts,
                    payloads |-> t.payloads, lists |-> t.lists]

IInv == /\ RecordsTypeOK
        /\ IsTables(db) /\ IsTables(work)
        /\ EveryRowHydrates
        /\ WorkInv
        /\ TxnInv

------------------------------------------------------------------------------
LEMMA InitInv == Init => IInv
  BY ValueAssumption DEF Init, IInv, RecordsTypeOK, SettledTables, IsTables, EveryRowHydrates,
     WorkInv, TxnInv, Steps, EmptyMap, Hydrates

\* The pipeline keeps what the schema requires, and leaves no null.
LEMMA TransformedValid ==
  ASSUME NEW e \in Offers, Validate(e)
  PROVE  /\ Transformed(e).type \in Types
         /\ Transformed(e).at \in Clock \union {Null}
         /\ Required(Transformed(e).type) \subseteq DOMAIN Transformed(e).meta
         /\ \A f \in DOMAIN Transformed(e).meta : Transformed(e).meta[f] # Null
<1> DEFINE kept == DOMAIN e.meta \intersect (Required(e.type) \union Optional(e.type))
           t == Transformed(e)
<1>0. e = [f \in Fields |-> e[f]]
  BY OffersAssumption
<1>1. t.type = e.type /\ t.at = e.at
  BY <1>0 DEF Transformed, Strip, Redact, Enrich, Fields
<1>2. t.meta = [f \in kept |-> Scrub(e.meta[f])]
  BY <1>0 DEF Transformed, Strip, Redact, Enrich, Fields
<1>3. \A f \in kept : Scrub(e.meta[f]) # Null
  BY OffersAssumption, ValueAssumption DEF Scrub
<1> QED
  BY <1>1, <1>2, <1>3, OffersAssumption DEF Validate

LEMMA BeginInv ==
  ASSUME IInv, NEW e \in Offers, Begin(e)
  PROVE  IInv'
<1>1. RecordsTypeOK'
  <2>1. appends' \in 0 .. MaxAppends
    BY ValueAssumption DEF IInv, Begin, RecordsTypeOK
  <2>2. step' \in Steps
    BY DEF Begin, Steps
  <2>3. SettledTables(db)' /\ SettledTables(work)'
    BY DEF IInv, Begin, RecordsTypeOK, SettledTables
  <2>4. (work.next \in {db.next, db.next + 1})' /\ (DOMAIN accepted = DOMAIN db.rows)'
    BY DEF IInv, Begin, RecordsTypeOK
  <2> QED
    BY <2>1, <2>2, <2>3, <2>4 DEF RecordsTypeOK
<1>2. IsTables(db)' /\ IsTables(work)' /\ EveryRowHydrates'
  BY DEF IInv, Begin, IsTables, EveryRowHydrates, Hydrates
<1>3. WorkInv'
  BY DEF IInv, Begin, WorkInv, EveryRowHydrates, Hydrates
<1>4. TxnInv'
  BY TransformedValid DEF Begin, TxnInv
<1> QED
  BY <1>1, <1>2, <1>3, <1>4 DEF IInv

LEMMA EnvelopeInv ==
  ASSUME IInv, InsertEnvelope
  PROVE  IInv'
<1> USE DEF InsertEnvelope
<1>0. work = db
  BY DEF IInv, WorkInv
<1>t. txn.type \in Types /\ txn.at \in Clock \union {Null}
  BY DEF IInv, TxnInv
<1>1. PICK now \in Clock :
        work' = [work EXCEPT !.next = @ + 1,
                  !.rows = With(@, work.next,
                    [event_id |-> txn.event_id, type |-> txn.type,
                     source |-> SourceForEvent(txn.type), session_id |-> txn.session_id,
                     at |-> IF txn.at = Null THEN now ELSE txn.at,
                     search_text |-> DeriveSearchText(txn)])]
  OBVIOUS
<1> DEFINE row == [event_id |-> txn.event_id, type |-> txn.type,
                   source |-> SourceForEvent(txn.type), session_id |-> txn.session_id,
                   at |-> IF txn.at = Null THEN now ELSE txn.at,
                   search_text |-> DeriveSearchText(txn)]
<1>2. row.type = txn.type /\ row.at \in Clock
  BY <1>t
<1> HIDE DEF row
<1>3. /\ work'.next = work.next + 1
      /\ work'.rows = With(work.rows, work.next, row)
      /\ work'.contexts = work.contexts
      /\ work'.payloads = work.payloads
      /\ work'.lists = work.lists
      /\ IsTables(work')
  BY <1>1 DEF row, IInv, IsTables
<1>4. /\ DOMAIN work'.rows = DOMAIN work.rows \union {work.next}
      /\ work'.rows[work.next] = row
      /\ \A i \in DOMAIN work.rows : i # work.next => work'.rows[i] = work.rows[i]
  BY <1>3 DEF With
<1>5. work.next \in Nat \ {0} /\ DOMAIN work.rows = 1 .. (work.next - 1)
  BY DEF IInv, RecordsTypeOK, SettledTables
<1>6. work.next \notin DOMAIN work.rows /\ DOMAIN work'.rows = 1 .. (work'.next - 1)
  <2>1. \A n \in Nat \ {0} : n \notin 1 .. (n - 1) /\ (1 .. (n - 1)) \union {n} = 1 .. ((n + 1) - 1)
    OBVIOUS
  <2> QED
    BY <2>1, <1>3, <1>4, <1>5
<1>7. SettledTables(work')
  <2>1. \A i \in DOMAIN work'.rows : work'.rows[i].type \in Types /\ work'.rows[i].at \in Clock
    BY <1>2, <1>4, <1>t, <1>6 DEF IInv, RecordsTypeOK, SettledTables
  <2> QED
    BY <2>1, <1>3, <1>4, <1>5, <1>6 DEF IInv, RecordsTypeOK, SettledTables
<1>8. RecordsTypeOK'
  BY <1>7, <1>3, <1>0 DEF IInv, RecordsTypeOK, Steps, SettledTables
<1>9. \A i \in DOMAIN db.rows : Hydrates(work', i)
  BY <1>0, <1>3, <1>4, <1>6 DEF IInv, EveryRowHydrates, Hydrates
<1>10. WorkInv'
  <2>1. Grown'
    BY <1>0, <1>2, <1>3, <1>4 DEF Grown
  <2> QED
    BY <2>1, <1>9 DEF WorkInv, Hydrates
<1>11. EveryRowHydrates' /\ TxnInv' /\ IsTables(db)'
  BY DEF IInv, EveryRowHydrates, Hydrates, TxnInv, IsTables
<1> QED
  BY <1>3, <1>8, <1>10, <1>11 DEF IInv

LEMMA ContextInv ==
  ASSUME IInv, InsertContext
  PROVE  IInv'
<1> USE DEF InsertContext
<1>0. Grown /\ SettledTables(work) /\ IsTables(work) /\ db.next \in Nat
  BY DEF IInv, WorkInv, RecordsTypeOK, SettledTables
<1>1. Id \in DOMAIN work.rows
  <2>1. \A n \in Nat : n \in Nat \ {0} => ((n + 1) - 1) \in 1 .. ((n + 1) - 1)
    OBVIOUS
  <2>2. db.next \in Nat \ {0}
    BY DEF IInv, RecordsTypeOK, SettledTables
  <2> QED
    BY <1>0, <2>1, <2>2 DEF Id, Grown, SettledTables
<1>2. /\ work'.next = work.next /\ work'.rows = work.rows
      /\ work'.payloads = work.payloads /\ work'.lists = work.lists
      /\ IsTables(work')
  BY <1>0 DEF IsTables
<1>3. DOMAIN work'.contexts \subseteq DOMAIN work.contexts \union {Id}
  <2>1. CASE DOMAIN txn.context = {}
    BY <2>1
  <2>2. CASE DOMAIN txn.context # {}
    <3>1. work'.contexts = With(work.contexts, Id, txn.context)
      BY <2>2, <1>0 DEF IsTables
    <3> QED
      BY <3>1 DEF With
  <2> QED
    BY <2>1, <2>2
<1>4. SettledTables(work')
  BY <1>0, <1>1, <1>2, <1>3 DEF SettledTables
<1>5. RecordsTypeOK'
  BY <1>2, <1>4 DEF IInv, RecordsTypeOK, Steps, SettledTables
<1>6. WorkInv'
  BY <1>0, <1>2 DEF IInv, WorkInv, Grown, Hydrates
<1>7. EveryRowHydrates' /\ TxnInv' /\ IsTables(db)'
  BY DEF IInv, EveryRowHydrates, Hydrates, TxnInv, IsTables
<1> QED
  BY <1>2, <1>5, <1>6, <1>7 DEF IInv

\* A validated event fills every required column.
LEMMA PayloadComplete ==
  ASSUME TxnInv, step # "idle"
  PROVE  /\ DOMAIN PayloadRow(txn) = Columns(txn.type)
         /\ \A c \in Required(txn.type) \ {"cwd"} :
              c \in Columns(txn.type) => PayloadRow(txn)[c] # Null
  BY DEF TxnInv, PayloadRow

\* Of the required fields, only the directory of a shell command is no column.
LEMMA RequiredColumns ==
  ASSUME NEW type \in Types
  PROVE  Required(type) \ {"cwd"} \subseteq Columns(type)
<1>1. "hostname" \notin Required(type)
  BY DEF Types, Required
<1> QED
  BY <1>1 DEF Columns

LEMMA PayloadInv ==
  ASSUME IInv, InsertPayload
  PROVE  IInv'
<1> USE DEF InsertPayload
<1>0. /\ Grown /\ SettledTables(work) /\ IsTables(work) /\ db.next \in Nat \ {0}
      /\ DOMAIN db.rows = 1 .. (db.next - 1)
      /\ \A i \in DOMAIN db.rows : Hydrates(work, i)
  BY DEF IInv, WorkInv, RecordsTypeOK, SettledTables
<1>1. Id = db.next
  BY <1>0 DEF Id, Grown
<1>2. /\ work'.next = work.next /\ work'.rows = work.rows
      /\ work'.contexts = work.contexts /\ work'.lists = work.lists
      /\ work'.payloads = With(work.payloads, Id, PayloadRow(txn))
      /\ IsTables(work')
  BY <1>0 DEF IsTables
<1>3. /\ DOMAIN work'.payloads = DOMAIN work.payloads \union {Id}
      /\ work'.payloads[Id] = PayloadRow(txn)
      /\ \A i \in DOMAIN work.payloads : i # Id => work'.payloads[i] = work.payloads[i]
  BY <1>2 DEF With
<1>4. DOMAIN work.rows = DOMAIN db.rows \union {Id} /\ Id \notin DOMAIN db.rows
  <2>1. \A n \in Nat \ {0} : n \notin 1 .. (n - 1) /\ (1 .. (n - 1)) \union {n} = 1 .. ((n + 1) - 1)
    OBVIOUS
  <2> QED
    BY <2>1, <1>0, <1>1 DEF Grown, SettledTables
<1>5. SettledTables(work')
  BY <1>0, <1>2, <1>3, <1>4 DEF SettledTables
<1>6. RecordsTypeOK'
  BY <1>2, <1>5 DEF IInv, RecordsTypeOK, Steps, SettledTables
<1>7. txn.type \in Types
  BY DEF IInv, TxnInv
<1>8. Hydrates(work', Id)
  <2>1. work'.rows[Id].type = txn.type
    BY <1>0, <1>1, <1>2 DEF Grown
  <2>2. /\ DOMAIN PayloadRow(txn) = Columns(txn.type)
        /\ \A c \in Required(txn.type) \ {"cwd"} : PayloadRow(txn)[c] # Null
    BY PayloadComplete, RequiredColumns, <1>7 DEF IInv
  <2> QED
    BY <2>1, <2>2, <1>3 DEF Hydrates
<1>9. \A i \in DOMAIN db.rows : Hydrates(work', i)
  BY <1>0, <1>2, <1>3, <1>4 DEF Hydrates
<1>10. WorkInv'
  <2>1. \A i \in DOMAIN work'.rows : Hydrates(work', i)
    BY <1>2, <1>4, <1>8, <1>9
  <2>2. work'.next = db'.next + 1
    BY <1>0, <1>2 DEF Grown
  <2> QED
    BY <2>1, <2>2 DEF WorkInv, Hydrates
<1>11. EveryRowHydrates' /\ TxnInv' /\ IsTables(db)'
  BY DEF IInv, EveryRowHydrates, Hydrates, TxnInv, IsTables
<1> QED
  BY <1>2, <1>6, <1>10, <1>11 DEF IInv

LEMMA ListItemInv ==
  ASSUME IInv, InsertListItem
  PROVE  IInv'
<1> USE DEF InsertListItem
<1>0. /\ SettledTables(work) /\ IsTables(work) /\ db.next \in Nat \ {0}
      /\ work.next = db.next + 1
      /\ \A i \in DOMAIN work.rows : Hydrates(work, i)
  BY DEF IInv, WorkInv, RecordsTypeOK, SettledTables
<1>1. Id \in DOMAIN work.rows
  BY <1>0 DEF Id, SettledTables
<1>2. PICK items : work' = [work EXCEPT !.lists = With(@, Id, items)]
  OBVIOUS
<1>3. /\ work'.next = work.next /\ work'.rows = work.rows
      /\ work'.contexts = work.contexts /\ work'.payloads = work.payloads
      /\ DOMAIN work'.lists = DOMAIN work.lists \union {Id}
      /\ IsTables(work')
  BY <1>0, <1>2 DEF IsTables, With
<1>4. SettledTables(work')
  BY <1>0, <1>1, <1>3 DEF SettledTables
<1>5. step' \in {"list", "commit"} /\ UNCHANGED <<db, txn, accepted, appends>>
  OBVIOUS
<1>6. RecordsTypeOK'
  BY <1>3, <1>4, <1>5 DEF IInv, RecordsTypeOK, Steps, SettledTables
<1>7. WorkInv'
  BY <1>0, <1>3, <1>5 DEF WorkInv, Hydrates
<1>8. EveryRowHydrates' /\ TxnInv' /\ IsTables(db)'
  BY <1>5 DEF IInv, EveryRowHydrates, Hydrates, TxnInv, IsTables
<1> QED
  BY <1>3, <1>6, <1>7, <1>8 DEF IInv

LEMMA CommitInv ==
  ASSUME IInv, Commit
  PROVE  IInv'
<1> USE DEF Commit
<1>0. /\ SettledTables(work) /\ IsTables(work) /\ SettledTables(db)
      /\ \A i \in DOMAIN work.rows : Hydrates(work, i)
  BY DEF IInv, WorkInv, RecordsTypeOK
<1>1. DOMAIN accepted' = DOMAIN work.rows
  <2>1. CASE work.next = db.next
    BY <2>1, <1>0 DEF IInv, RecordsTypeOK, SettledTables
  <2>2. CASE work.next # db.next
    <3>1. work.next = db.next + 1
      BY <2>2 DEF IInv, RecordsTypeOK
    <3>2. DOMAIN accepted' = DOMAIN accepted \union {Id}
      BY <2>2 DEF With
    <3>3. \A n \in Nat \ {0} : (1 .. (n - 1)) \union {(n + 1) - 1} = 1 .. ((n + 1) - 1)
      OBVIOUS
    <3> QED
      BY <3>1, <3>2, <3>3, <1>0 DEF IInv, RecordsTypeOK, SettledTables, Id
  <2> QED
    BY <2>1, <2>2
<1>2. RecordsTypeOK'
  BY <1>0, <1>1 DEF IInv, RecordsTypeOK, Steps, SettledTables
<1>3. IsTables(db)' /\ IsTables(work)' /\ EveryRowHydrates' /\ WorkInv' /\ TxnInv'
  BY <1>0 DEF IsTables, EveryRowHydrates, Hydrates, WorkInv, TxnInv
<1> QED
  BY <1>2, <1>3 DEF IInv

LEMMA RollbackInv ==
  ASSUME IInv, Rollback
  PROVE  IInv'
<1>1. RecordsTypeOK'
  BY DEF IInv, Rollback, RecordsTypeOK, Steps, SettledTables
<1>2. IsTables(db)' /\ IsTables(work)' /\ EveryRowHydrates' /\ WorkInv' /\ TxnInv'
  BY DEF IInv, Rollback, IsTables, EveryRowHydrates, Hydrates, WorkInv, TxnInv
<1> QED
  BY <1>1, <1>2 DEF IInv

LEMMA StutterInv ==
  ASSUME IInv, UNCHANGED vars
  PROVE  IInv'
<1>1. RecordsTypeOK'
  BY DEF IInv, vars, RecordsTypeOK, SettledTables
<1>2. IsTables(db)' /\ IsTables(work)' /\ EveryRowHydrates' /\ WorkInv' /\ TxnInv'
  BY DEF IInv, vars, IsTables, EveryRowHydrates, Hydrates, WorkInv, TxnInv, Grown
<1> QED
  BY <1>1, <1>2 DEF IInv

LEMMA InvHolds == Spec => []IInv
<1>1. IInv /\ [Next]_vars => IInv'
  BY BeginInv, EnvelopeInv, ContextInv, PayloadInv, ListItemInv, CommitInv, RollbackInv,
     StutterInv DEF Next
<1> QED
  BY InitInv, <1>1, PTL DEF Spec

------------------------------------------------------------------------------
\* The tables keep their shape, in and out of transactions, whatever fails.
THEOREM TypeCorrect == Spec => []RecordsTypeOK
<1>1. IInv => RecordsTypeOK
  BY DEF IInv
<1> QED
  BY InvHolds, <1>1, PTL

\* A committed envelope always has its payload row, of its type and complete:
\* hydrateEvents has no event to stumble over.
THEOREM AlwaysHydrates == Spec => []EveryRowHydrates
<1>1. IInv => EveryRowHydrates
  BY DEF IInv
<1> QED
  BY InvHolds, <1>1, PTL

------------------------------------------------------------------------------
(* What readers get is what was accepted. *)

\* What the tables of t hold of row i, if it was made from event e.
RowStored(t, i, e) ==
  /\ i \in DOMAIN t.rows
  /\ t.rows[i].event_id = e.event_id /\ t.rows[i].type = e.type
  /\ t.rows[i].session_id = e.session_id /\ e.at \in {Null, t.rows[i].at}
  /\ t.rows[i].source = SourceForEvent(e.type)
  /\ t.rows[i].search_text = DeriveSearchText(e)

ContextStored(t, i, e) ==
  IF DOMAIN e.context = {} THEN i \notin DOMAIN t.contexts
  ELSE i \in DOMAIN t.contexts /\ t.contexts[i] = e.context

PayloadStored(t, i, e) == i \in DOMAIN t.payloads /\ t.payloads[i] = PayloadRow(e)

ListStored(t, i, e) ==
  IF e.list = <<>> THEN i \notin DOMAIN t.lists
  ELSE i \in DOMAIN t.lists /\ t.lists[i] = e.list

Stored(t, i, e) == /\ RowStored(t, i, e) /\ ContextStored(t, i, e)
                   /\ PayloadStored(t, i, e) /\ ListStored(t, i, e)

\* An event of a producer as the pipeline leaves it.
Offered(e) == \E o \in Offers : Validate(o) /\ e = Transformed(o)

\* The committed rows are the accepted events, one for each event_id.
Kept ==
  /\ \A i \in DOMAIN db.rows : Stored(db, i, accepted[i]) /\ Offered(accepted[i])
  /\ \A i, j \in DOMAIN db.rows : db.rows[i].event_id = db.rows[j].event_id => i = j

\* Some items of the list of the open transaction are in, in their order.
ListBegun(t, i, e) ==
  /\ e.list # <<>>
  /\ i \in DOMAIN t.lists =>
       \E k \in 1 .. (Len(e.list) - 1) : t.lists[i] = SubSeq(e.list, 1, k)

\* What the open transaction has of its event's row at each step.
RowBegun(t, i, e) ==
  /\ RowStored(t, i, e)
  /\ step = "context" => i \notin DOMAIN t.contexts
  /\ step \in {"context", "payload"} => i \notin DOMAIN t.lists
  /\ step \in {"payload", "list", "commit"} => ContextStored(t, i, e)
  /\ step \in {"list", "commit"} => PayloadStored(t, i, e)
  /\ step = "list" => ListBegun(t, i, e)
  /\ step = "commit" => ListStored(t, i, e)

\* The open transaction: its event is new, the rows before it are untouched.
Inserting == step # "idle" /\ work.next = db.next + 1

OpenInv ==
  /\ step # "idle" => Offered(txn)
  /\ step = "commit" /\ ~Inserting => work = db
  /\ step = "envelope" \/ Inserting => ~Known(db, txn.event_id)
  /\ Inserting => /\ \A i \in DOMAIN db.rows : Stored(work, i, accepted[i])
                  /\ RowBegun(work, db.next, txn)


LEMMA KeptInit == Init => Kept /\ OpenInv
  BY DEF Init, Kept, OpenInv, Inserting, EmptyMap, Known

\* What is stored does not depend on the next row id.
LEMMA StoredSame ==
  ASSUME NEW t, NEW u, NEW i, NEW e,
         u.rows = t.rows, u.contexts = t.contexts, u.payloads = t.payloads, u.lists = t.lists
  PROVE  Stored(t, i, e) = Stored(u, i, e)
  BY DEF Stored, RowStored, ContextStored, PayloadStored, ListStored

\* A prefix of a list and its next item are the next longer prefix.
LEMMA NextItem ==
  ASSUME NEW S, NEW s \in Seq(S), NEW k \in 0 .. (Len(s) - 1)
  PROVE  /\ Append(SubSeq(s, 1, k), s[k + 1]) = SubSeq(s, 1, k + 1)
         /\ Len(SubSeq(s, 1, k)) = k
         /\ SubSeq(s, 1, Len(s)) = s
         /\ SubSeq(s, 1, 0) = <<>>
  OBVIOUS

\* A row id that the tables have not given out.
LEMMA NextUnused ==
  ASSUME IInv
  PROVE  /\ db.next \in Nat \ {0} /\ db.next \notin DOMAIN db.rows
         /\ work.next = db.next + 1 => Id = db.next /\ DOMAIN work.rows = DOMAIN db.rows \union {db.next}
         /\ DOMAIN db.contexts \subseteq DOMAIN db.rows /\ DOMAIN db.lists \subseteq DOMAIN db.rows
<1>1. db.next \in Nat \ {0} /\ DOMAIN db.rows = 1 .. (db.next - 1)
  BY DEF IInv, RecordsTypeOK, SettledTables
<1>2. \A n \in Nat \ {0} : n \notin 1 .. (n - 1) /\ (1 .. (n - 1)) \union {n} = 1 .. ((n + 1) - 1)
                           /\ (n + 1) - 1 = n
  OBVIOUS
<1>3. DOMAIN work.rows = 1 .. (work.next - 1)
  BY DEF IInv, RecordsTypeOK, SettledTables
<1> QED
  BY <1>1, <1>2, <1>3 DEF Id, IInv, RecordsTypeOK, SettledTables

LEMMA BeginKept ==
  ASSUME IInv, Kept, OpenInv, NEW e \in Offers, Begin(e)
  PROVE  Kept' /\ OpenInv'
<1>0. e = [f \in Fields |-> e[f]]
  BY OffersAssumption
<1>1. Transformed(e).event_id = e.event_id
  BY <1>0 DEF Transformed, Strip, Redact, Enrich, Fields
<1>2. Offered(txn')
  BY DEF Begin, Offered
<1>3. ~Inserting'
  <2>1. work'.next = db'.next /\ db'.next \in Nat
    BY DEF Begin, IInv, RecordsTypeOK, SettledTables
  <2> QED
    BY <2>1 DEF Inserting
<1>4. step' = "envelope" => ~Known(db', txn'.event_id)
  BY <1>1 DEF Begin
<1> QED
  BY <1>2, <1>3, <1>4 DEF Begin, Kept, OpenInv, Stored, RowStored, ContextStored, PayloadStored,
     ListStored

LEMMA EnvelopeKept ==
  ASSUME IInv, Kept, OpenInv, InsertEnvelope
  PROVE  Kept' /\ OpenInv'
<1>0. work = db /\ IsTables(work) /\ step = "envelope" /\ step' = "context"
      /\ UNCHANGED <<db, txn, accepted>>
  BY DEF IInv, WorkInv, InsertEnvelope
<1>1. PICK now \in Clock :
        work' = [work EXCEPT !.next = @ + 1,
                  !.rows = With(@, work.next,
                    [event_id |-> txn.event_id, type |-> txn.type,
                     source |-> SourceForEvent(txn.type), session_id |-> txn.session_id,
                     at |-> IF txn.at = Null THEN now ELSE txn.at,
                     search_text |-> DeriveSearchText(txn)])]
  BY DEF InsertEnvelope
<1> DEFINE row == [event_id |-> txn.event_id, type |-> txn.type,
                   source |-> SourceForEvent(txn.type), session_id |-> txn.session_id,
                   at |-> IF txn.at = Null THEN now ELSE txn.at,
                   search_text |-> DeriveSearchText(txn)]
<1>2. /\ row.event_id = txn.event_id /\ row.type = txn.type /\ row.session_id = txn.session_id
      /\ txn.at \in {Null, row.at} /\ row.source = SourceForEvent(txn.type)
      /\ row.search_text = DeriveSearchText(txn)
  OBVIOUS
<1> HIDE DEF row
<1>3. /\ work'.next = db.next + 1
      /\ work'.rows = With(db.rows, db.next, row)
      /\ work'.contexts = db.contexts /\ work'.payloads = db.payloads /\ work'.lists = db.lists
  BY <1>0, <1>1 DEF row, IsTables
<1>4. /\ DOMAIN work'.rows = DOMAIN db.rows \union {db.next}
      /\ work'.rows[db.next] = row
      /\ \A i \in DOMAIN db.rows : work'.rows[i] = db.rows[i]
  BY <1>3, NextUnused DEF With
<1>5. \A i \in DOMAIN db.rows : Stored(work', i, accepted[i])
  BY <1>3, <1>4 DEF Kept, Stored, RowStored, ContextStored, PayloadStored, ListStored
<1>6. RowBegun(work, db.next, txn)'
  BY <1>0, <1>2, <1>3, <1>4, NextUnused DEF RowBegun, RowStored
<1>7. Kept'
  BY <1>0 DEF Kept, Stored, RowStored, ContextStored, PayloadStored, ListStored
<1>8. Offered(txn) /\ ~Known(db, txn.event_id)
  BY <1>0 DEF OpenInv
<1>9. OpenInv'
  <2>1. Offered(txn') /\ ~Known(db', txn'.event_id) /\ step' = "context"
    BY <1>0, <1>8
  <2>2. \A i \in DOMAIN db'.rows : Stored(work', i, accepted'[i])
    BY <1>0, <1>5
  <2> QED
    BY <2>1, <2>2, <1>6 DEF OpenInv
<1> QED
  BY <1>7, <1>9

\* A step inside the transaction that leaves the envelopes alone.
LEMMA StillKept ==
  ASSUME Kept, OpenInv, Inserting, Inserting', UNCHANGED <<db, txn, accepted>>,
         \A i \in DOMAIN db.rows : Stored(work', i, accepted[i]),
         RowBegun(work, db.next, txn)'
  PROVE  Kept' /\ OpenInv'
<1>1. Kept'
  BY DEF Kept, Stored, RowStored, ContextStored, PayloadStored, ListStored
<1>2. Offered(txn') /\ ~Known(db', txn'.event_id)
  BY DEF OpenInv, Inserting
<1>3. \A i \in DOMAIN db'.rows : Stored(work', i, accepted'[i])
  OBVIOUS
<1>4. OpenInv'
  BY <1>2, <1>3 DEF OpenInv, Inserting
<1> QED
  BY <1>1, <1>4

LEMMA ContextKept ==
  ASSUME IInv, Kept, OpenInv, InsertContext
  PROVE  Kept' /\ OpenInv'
<1>0. /\ step = "context" /\ step' = "payload" /\ UNCHANGED <<db, txn, accepted>>
      /\ work.next = db.next + 1 /\ IsTables(work) /\ Id = db.next
  BY NextUnused DEF InsertContext, IInv, WorkInv, Grown
<1>1. work' = IF DOMAIN txn.context = {} THEN work
              ELSE [work EXCEPT !.contexts = With(@, Id, txn.context)]
  BY DEF InsertContext
<1>2. /\ work'.next = work.next /\ work'.rows = work.rows
      /\ work'.payloads = work.payloads /\ work'.lists = work.lists
      /\ work'.contexts = IF DOMAIN txn.context = {} THEN work.contexts
                          ELSE With(work.contexts, db.next, txn.context)
  BY <1>0, <1>1 DEF IsTables
<1>3. RowBegun(work, db.next, txn) /\ \A i \in DOMAIN db.rows : Stored(work, i, accepted[i])
  BY <1>0 DEF OpenInv, Inserting
<1>4. \A i \in DOMAIN db.rows : ContextStored(work', i, accepted[i])
  <2>1. \A i \in DOMAIN db.rows : ContextStored(work, i, accepted[i]) /\ i # db.next
    BY <1>3, NextUnused DEF Stored
  <2> QED
    BY <1>2, <2>1 DEF ContextStored, With
<1>5. \A i \in DOMAIN db.rows : Stored(work', i, accepted[i])
  BY <1>2, <1>3, <1>4 DEF Stored, RowStored, PayloadStored, ListStored
<1>6. ContextStored(work', db.next, txn)
  <2>1. db.next \notin DOMAIN work.contexts
    BY <1>0, <1>3 DEF RowBegun
  <2> QED
    BY <1>2, <2>1 DEF ContextStored, With
<1>7. RowBegun(work, db.next, txn)'
  BY <1>0, <1>2, <1>3, <1>6 DEF RowBegun, RowStored
<1> QED
  BY <1>0, <1>2, <1>5, <1>7, StillKept DEF Inserting

LEMMA PayloadKept ==
  ASSUME IInv, Kept, OpenInv, InsertPayload
  PROVE  Kept' /\ OpenInv'
<1>0. /\ step = "payload" /\ UNCHANGED <<db, txn, accepted>>
      /\ step' = IF txn.list = <<>> THEN "commit" ELSE "list"
      /\ work.next = db.next + 1 /\ IsTables(work) /\ Id = db.next
  BY NextUnused DEF InsertPayload, IInv, WorkInv, Grown
<1>1. work' = [work EXCEPT !.payloads = With(@, Id, PayloadRow(txn))]
  BY DEF InsertPayload
<1>2. /\ work'.next = work.next /\ work'.rows = work.rows
      /\ work'.contexts = work.contexts /\ work'.lists = work.lists
      /\ work'.payloads = With(work.payloads, db.next, PayloadRow(txn))
  BY <1>0, <1>1 DEF IsTables
<1>3. RowBegun(work, db.next, txn) /\ \A i \in DOMAIN db.rows : Stored(work, i, accepted[i])
  BY <1>0 DEF OpenInv, Inserting
<1>4. \A i \in DOMAIN db.rows : PayloadStored(work', i, accepted[i])
  <2>1. \A i \in DOMAIN db.rows : PayloadStored(work, i, accepted[i]) /\ i # db.next
    BY <1>3, NextUnused DEF Stored
  <2> QED
    BY <1>2, <2>1 DEF PayloadStored, With
<1>5. \A i \in DOMAIN db.rows : Stored(work', i, accepted[i])
  BY <1>2, <1>3, <1>4 DEF Stored, RowStored, ContextStored, ListStored
<1>6. PayloadStored(work', db.next, txn)
  BY <1>2 DEF PayloadStored, With
<1>7. db.next \notin DOMAIN work'.lists
  BY <1>0, <1>2, <1>3 DEF RowBegun
<1>8. RowStored(work', db.next, txn) /\ ContextStored(work', db.next, txn)
  BY <1>0, <1>2, <1>3 DEF RowBegun, RowStored, ContextStored
<1>9. RowBegun(work, db.next, txn)'
  <2>1. CASE txn.list = <<>>
    BY <2>1, <1>0, <1>6, <1>7, <1>8 DEF RowBegun, ListStored
  <2>2. CASE txn.list # <<>>
    BY <2>2, <1>0, <1>6, <1>7, <1>8 DEF RowBegun, ListBegun
  <2> QED
    BY <2>1, <2>2
<1>10. Inserting /\ Inserting'
  BY <1>0, <1>2 DEF Inserting
<1> QED
  BY <1>0, <1>5, <1>9, <1>10, StillKept

\* The pipeline keeps a list a list.
LEMMA OfferedList ==
  ASSUME NEW e, Offered(e)
  PROVE  \E S : e.list \in Seq(S)
<1>1. PICK o \in Offers : e = Transformed(o)
  BY DEF Offered
<1>2. o = [f \in Fields |-> o[f]] /\ o.list \in Seq(STRING)
  BY <1>1, OffersAssumption
<1>3. e.list = [n \in DOMAIN o.list |-> Scrub(o.list[n])]
  BY <1>1, <1>2 DEF Transformed, Strip, Redact, Enrich, Fields
<1> DEFINE items == {Scrub(o.list[n]) : n \in DOMAIN o.list}
<1>4. Len(o.list) \in Nat /\ DOMAIN o.list = 1 .. Len(o.list)
  BY <1>2
<1>5. \A n \in 1 .. Len(o.list) : Scrub(o.list[n]) \in items
  BY <1>4
<1>6. e.list = [n \in 1 .. Len(o.list) |-> Scrub(o.list[n])]
  BY <1>3, <1>4
<1> HIDE DEF items
<1>7. e.list \in Seq(items)
  BY <1>4, <1>5, <1>6
<1> QED
  BY <1>7

LEMMA ListItemKept ==
  ASSUME IInv, Kept, OpenInv, InsertListItem
  PROVE  Kept' /\ OpenInv'
<1> DEFINE before == IF Id \in DOMAIN work.lists THEN work.lists[Id] ELSE <<>>
           now == Append(before, txn.list[Len(before) + 1])
<1>0. /\ step = "list" /\ UNCHANGED <<db, txn, accepted>>
      /\ step' = IF Len(now) = Len(txn.list) THEN "commit" ELSE "list"
      /\ work.next = db.next + 1 /\ IsTables(work) /\ Id = db.next
      /\ work' = [work EXCEPT !.lists = With(@, Id, now)]
  BY NextUnused DEF InsertListItem, IInv, WorkInv
<1>1. RowBegun(work, db.next, txn) /\ \A i \in DOMAIN db.rows : Stored(work, i, accepted[i])
  BY <1>0 DEF OpenInv, Inserting
<1>2. PICK S : txn.list \in Seq(S)
  BY <1>0, OfferedList DEF OpenInv
<1>3. PICK k \in 0 .. (Len(txn.list) - 1) : before = SubSeq(txn.list, 1, k)
  <2>1. ListBegun(work, db.next, txn)
    BY <1>0, <1>1 DEF RowBegun
  <2>2. Len(txn.list) \in Nat \ {0}
    BY <2>1, <1>2 DEF ListBegun
  <2>3. CASE Id \in DOMAIN work.lists
    <3>1. PICK k \in 1 .. (Len(txn.list) - 1) : work.lists[Id] = SubSeq(txn.list, 1, k)
      BY <1>0, <2>1, <2>3 DEF ListBegun
    <3>2. k \in 0 .. (Len(txn.list) - 1)
      BY <2>2
    <3> QED
      BY <2>3, <3>1, <3>2
  <2>4. CASE Id \notin DOMAIN work.lists
    <3>1. 0 \in 0 .. (Len(txn.list) - 1) /\ SubSeq(txn.list, 1, 0) = <<>>
      BY <2>2, <1>2
    <3> QED
      BY <2>4, <3>1
  <2> QED
    BY <2>3, <2>4
<1>4. now = SubSeq(txn.list, 1, k + 1) /\ Len(now) = k + 1 /\ SubSeq(txn.list, 1, Len(txn.list)) = txn.list
  <2>1. k + 1 \in 1 .. Len(txn.list) /\ Len(txn.list) \in Nat /\ k \in Nat
    BY <1>2
  <2>2. Len(before) = k /\ now = SubSeq(txn.list, 1, k + 1)
    BY <1>2, <1>3, NextItem
  <2>3. Len(SubSeq(txn.list, 1, k + 1)) = k + 1
    BY <1>2, <2>1
  <2> QED
    BY <1>2, <2>2, <2>3, NextItem
<1> HIDE DEF now, before
<1>5. /\ work'.next = work.next /\ work'.rows = work.rows
      /\ work'.contexts = work.contexts /\ work'.payloads = work.payloads
      /\ work'.lists = With(work.lists, db.next, now)
  BY <1>0 DEF IsTables
<1>6. /\ db.next \in DOMAIN work'.lists /\ work'.lists[db.next] = now
      /\ \A i \in DOMAIN db.rows : ListStored(work, i, accepted[i]) => ListStored(work', i, accepted[i])
  BY <1>5, NextUnused DEF With, ListStored
<1>7. \A i \in DOMAIN db.rows : Stored(work', i, accepted[i])
  BY <1>1, <1>5, <1>6 DEF Stored, RowStored, ContextStored, PayloadStored
<1>8. RowStored(work', db.next, txn) /\ ContextStored(work', db.next, txn)
      /\ PayloadStored(work', db.next, txn)
  BY <1>0, <1>1, <1>5 DEF RowBegun, RowStored, ContextStored, PayloadStored
<1>9. txn.list # <<>>
  BY <1>0, <1>1 DEF RowBegun, ListBegun
<1>10. RowBegun(work, db.next, txn)'
  <2>1. CASE k + 1 = Len(txn.list)
    <3>1. step' = "commit" /\ ListStored(work', db.next, txn)
      BY <2>1, <1>0, <1>4, <1>6, <1>9 DEF ListStored
    <3> QED
      BY <3>1, <1>0, <1>8 DEF RowBegun
  <2>2. CASE k + 1 # Len(txn.list)
    <3>1. k + 1 \in 1 .. (Len(txn.list) - 1)
      BY <2>2, <1>2
    <3>2. step' = "list" /\ ListBegun(work', db.next, txn)
      BY <2>2, <3>1, <1>0, <1>4, <1>6, <1>9 DEF ListBegun
    <3> QED
      BY <3>2, <1>0, <1>8 DEF RowBegun
  <2> QED
    BY <2>1, <2>2
<1>11. Inserting /\ Inserting'
  BY <1>0, <1>5, <1>10 DEF Inserting, InsertListItem
<1> QED
  BY <1>0, <1>7, <1>10, <1>11, StillKept

LEMMA CommitKept ==
  ASSUME IInv, Kept, OpenInv, Commit
  PROVE  Kept' /\ OpenInv'
<1>0. step = "commit" /\ db' = work /\ step' = "idle" /\ work' = work
      /\ accepted' = IF work.next = db.next THEN accepted ELSE With(accepted, Id, txn)
  BY DEF Commit
<1>1. OpenInv'
  BY <1>0 DEF OpenInv, Inserting
<1>2. CASE ~Inserting
  <2>1. work = db
    BY <1>0, <1>2 DEF OpenInv
  <2> QED
    BY <1>0, <1>1, <2>1 DEF Kept, Stored, RowStored, ContextStored, PayloadStored, ListStored
<1>3. CASE Inserting
  <2>1. Id = db.next /\ DOMAIN work.rows = DOMAIN db.rows \union {db.next}
        /\ db.next \notin DOMAIN db.rows /\ db.next \in Nat /\ work.next # db.next
    BY <1>3, NextUnused DEF Inserting
  <2>2. accepted' = With(accepted, db.next, txn) /\ DOMAIN accepted = DOMAIN db.rows
    BY <1>0, <2>1 DEF IInv, RecordsTypeOK
  <2>3. accepted'[db.next] = txn /\ \A i \in DOMAIN db.rows : accepted'[i] = accepted[i]
    BY <2>1, <2>2 DEF With
  <2>4. Stored(work, db.next, txn) /\ Offered(txn) /\ ~Known(db, txn.event_id)
    BY <1>0, <1>3 DEF OpenInv, RowBegun, Stored
  <2>5. \A i \in DOMAIN db.rows : Stored(work, i, accepted[i]) /\ Offered(accepted[i])
    BY <1>3 DEF OpenInv, Kept
  <2>6. \A i \in DOMAIN work.rows : Stored(work, i, accepted'[i]) /\ Offered(accepted'[i])
    BY <2>1, <2>3, <2>4, <2>5
  <2>7. \A i \in DOMAIN db.rows : work.rows[i].event_id = db.rows[i].event_id
    BY <2>5 DEF Kept, Stored, RowStored
  <2>8. \A i \in DOMAIN db.rows : work.rows[i].event_id # work.rows[db.next].event_id
    BY <2>4, <2>7 DEF Known, Stored, RowStored
  <2>9. \A i, j \in DOMAIN work.rows : work.rows[i].event_id = work.rows[j].event_id => i = j
    BY <2>1, <2>7, <2>8 DEF Kept
  <2> QED
    BY <1>0, <1>1, <2>6, <2>9 DEF Kept
<1> QED
  BY <1>2, <1>3

LEMMA RollbackKept ==
  ASSUME Kept, OpenInv, Rollback \/ UNCHANGED vars
  PROVE  Kept' /\ OpenInv'
<1>1. UNCHANGED <<db, accepted>>
  BY DEF Rollback, vars
<1>2. Kept'
  BY <1>1 DEF Kept, Stored, RowStored, ContextStored, PayloadStored, ListStored
<1>3. CASE Rollback
  BY <1>2, <1>3 DEF Rollback, OpenInv, Inserting
<1>4. CASE UNCHANGED vars
  BY <1>2, <1>4 DEF vars, OpenInv, Inserting, Known, RowBegun, ListBegun, Stored, RowStored,
     ContextStored, PayloadStored, ListStored
<1> QED
  BY <1>3, <1>4

LEMMA KeptHolds == Spec => []Kept
<1>1. IInv /\ Kept /\ OpenInv /\ [Next]_vars => Kept' /\ OpenInv'
  BY BeginKept, EnvelopeKept, ContextKept, PayloadKept, ListItemKept, CommitKept, RollbackKept DEF Next
<1> QED
  BY InvHolds, KeptInit, <1>1, PTL DEF Spec

------------------------------------------------------------------------------
(* The readers, over tables that hold what was accepted. *)

\* What the pipeline lets through.
LEMMA OfferedClean ==
  ASSUME NEW e, Offered(e)
  PROVE  /\ e.type \in Types
         /\ DOMAIN e.context \subseteq ContextKeys
         /\ e.context = [k \in DOMAIN e.context |-> e.context[k]]
         /\ DOMAIN e.meta \subseteq Required(e.type) \union Optional(e.type)
         /\ \A f \in DOMAIN e.meta : e.meta[f] # Null /\ e.meta[f] \notin Secrets
         /\ \A n \in DOMAIN e.list : e.list[n] \notin Secrets
<1>1. PICK o \in Offers : Validate(o) /\ e = Transformed(o)
  BY DEF Offered
<1>2. o = [f \in Fields |-> o[f]]
  BY OffersAssumption
<1>3. /\ e.type = o.type /\ e.context = o.context
      /\ e.list = [n \in DOMAIN o.list |-> Scrub(o.list[n])]
      /\ e.meta = [f \in DOMAIN o.meta \intersect (Required(o.type) \union Optional(o.type)) |->
                     Scrub(o.meta[f])]
  BY <1>1, <1>2 DEF Transformed, Strip, Redact, Enrich, Fields
<1>4. \A value : Scrub(value) \notin Secrets
  BY ValueAssumption DEF Scrub
<1>5. \A f \in DOMAIN o.meta : Scrub(o.meta[f]) # Null
  BY OffersAssumption, ValueAssumption DEF Scrub
<1> QED
  BY <1>1, <1>3, <1>4, <1>5, OffersAssumption DEF Validate

\* The metadata a reader gets of a stored row: the columns that are not null,
\* and the directory of a shell command.
LEMMA HydratedMeta ==
  ASSUME NEW i, NEW e, Stored(db, i, e), Offered(e)
  PROVE  /\ \A f \in DOMAIN HydrateMeta(i) \ {"cwd"} :
              \/ f \in DOMAIN e.meta /\ f # "hostname" /\ HydrateMeta(i)[f] = e.meta[f]
              \/ f = "is_squash" /\ HydrateMeta(i)[f] = "false"
         /\ IsShell(e.type) =>
              HydrateMeta(i)["cwd"] = IF "cwd" \in DOMAIN MapContext(i) THEN MapContext(i)["cwd"] ELSE ""
         /\ "cwd" \in DOMAIN HydrateMeta(i) => IsShell(e.type)
<1>1. db.rows[i].type = e.type /\ PayloadOf(i) = PayloadRow(e)
  BY DEF Stored, RowStored, PayloadStored, PayloadOf
<1> DEFINE cols == Columns(e.type)
           kept == {c \in cols : PayloadRow(e)[c] # Null}
           shell == IF IsShell(e.type) THEN {"cwd"} ELSE {}
           cwd == IF "cwd" \in DOMAIN MapContext(i) THEN MapContext(i)["cwd"] ELSE ""
<1>2. HydrateMeta(i) = [f \in kept \union shell |-> IF f = "cwd" THEN cwd ELSE PayloadRow(e)[f]]
  BY <1>1 DEF HydrateMeta
<1>3. "cwd" \notin cols /\ "hostname" \notin cols
  BY DEF Columns
<1>4. /\ \A f \in DOMAIN e.meta : f \in cols => PayloadRow(e)[f] = e.meta[f] /\ e.meta[f] # Null
      /\ \A f \in cols : f \in DOMAIN e.meta \/ PayloadRow(e)[f] = (IF f = "is_squash" THEN "false" ELSE Null)
  BY OfferedClean DEF PayloadRow
<1>5. \A f \in kept : f \in cols /\ PayloadRow(e)[f] # Null
  OBVIOUS
<1> HIDE DEF cols, kept, cwd
<1>6. \A f \in kept : HydrateMeta(i)[f] = PayloadRow(e)[f]
  BY <1>2, <1>3, <1>5
<1>7. \A f \in DOMAIN HydrateMeta(i) \ {"cwd"} :
        \/ f \in DOMAIN e.meta /\ f # "hostname" /\ HydrateMeta(i)[f] = e.meta[f]
        \/ f = "is_squash" /\ HydrateMeta(i)[f] = "false"
  BY <1>2, <1>3, <1>4, <1>5, <1>6
<1>8. IsShell(e.type) => HydrateMeta(i)["cwd"] = cwd
  BY <1>2
<1>9. "cwd" \in DOMAIN HydrateMeta(i) => IsShell(e.type)
  BY <1>2, <1>3, <1>5
<1> QED
  BY <1>7, <1>8, <1>9 DEF cwd

\* Every field of a stored event that has a column comes back.
LEMMA HydratedField ==
  ASSUME NEW i, NEW e, Stored(db, i, e), Offered(e),
         NEW f \in DOMAIN e.meta, f # "cwd", f # "hostname"
  PROVE  f \in DOMAIN HydrateMeta(i) /\ HydrateMeta(i)[f] = e.meta[f]
<1>1. db.rows[i].type = e.type /\ PayloadOf(i) = PayloadRow(e)
  BY DEF Stored, RowStored, PayloadStored, PayloadOf
<1>2. f \in Columns(e.type) /\ e.meta[f] # Null
  BY OfferedClean DEF Columns
<1>3. PayloadRow(e)[f] = e.meta[f]
  BY <1>2 DEF PayloadRow
<1> QED
  BY <1>1, <1>2, <1>3 DEF HydrateMeta

\* The event a reader gets of a stored row, but for its metadata.
LEMMA HydratedEvent ==
  ASSUME IInv, NEW i, NEW e, Stored(db, i, e), Offered(e)
  PROVE  /\ HydrateEvent(i).event_id = e.event_id /\ HydrateEvent(i).type = e.type
         /\ HydrateEvent(i).session_id = e.session_id
         /\ HydrateEvent(i).at = db.rows[i].at /\ e.at \in {Null, HydrateEvent(i).at}
         /\ HydrateEvent(i).meta = HydrateMeta(i)
         /\ HydrateEvent(i).context = MapContext(i) /\ MapContext(i) = e.context
         /\ HydrateEvent(i).list = e.list
<1>1. /\ db.rows[i].event_id = e.event_id /\ db.rows[i].type = e.type
      /\ db.rows[i].session_id = e.session_id /\ e.at \in {Null, db.rows[i].at}
  BY DEF Stored, RowStored
<1>2. MapContext(i) = e.context
  <2>1. CASE DOMAIN e.context = {}
    <3>1. e.context = EmptyMap
      BY <2>1, OfferedClean DEF EmptyMap
    <3> QED
      BY <2>1, <3>1 DEF Stored, ContextStored, MapContext
  <2>2. CASE DOMAIN e.context # {}
    BY <2>2 DEF Stored, ContextStored, MapContext
  <2> QED
    BY <2>1, <2>2
<1>3. ListOf(i) = e.list
  BY DEF Stored, ListStored, ListOf
<1> QED
  BY <1>1, <1>2, <1>3 DEF HydrateEvent

LEMMA ReadsBackHolds ==
  ASSUME IInv, Kept, NEW i \in DOMAIN db.rows
  PROVE  ReadsBack(i)
<1> DEFINE e == accepted[i]
           h == HydrateEvent(i)
           same == DOMAIN e.meta \ {"cwd", "hostname"}
<1>1. Stored(db, i, e) /\ Offered(e)
  BY DEF Kept
<1> HIDE DEF e
<1>2. /\ h.event_id = e.event_id /\ h.type = e.type /\ h.session_id = e.session_id
      /\ e.at \in {Null, h.at} /\ h.context = e.context /\ h.list = e.list
      /\ h.meta = HydrateMeta(i) /\ MapContext(i) = e.context
  BY <1>1, HydratedEvent
<1> HIDE DEF h
<1>3. \A f \in same : f \in DOMAIN h.meta /\ h.meta[f] = e.meta[f]
  <2> SUFFICES ASSUME NEW f \in same
               PROVE  f \in DOMAIN h.meta /\ h.meta[f] = e.meta[f]
    OBVIOUS
  <2>1. f \in DOMAIN e.meta /\ f # "cwd" /\ f # "hostname"
    OBVIOUS
  <2>2. f \in DOMAIN HydrateMeta(i) /\ HydrateMeta(i)[f] = e.meta[f]
    BY <1>1, <2>1, HydratedField
  <2> QED
    BY <2>2, <1>2
<1>4. \A f \in DOMAIN h.meta \ (same \union {"cwd"}) : f = "is_squash" /\ h.meta[f] = "false"
  <2>1. \A f \in DOMAIN HydrateMeta(i) \ {"cwd"} :
          \/ f \in DOMAIN e.meta /\ f # "hostname" /\ HydrateMeta(i)[f] = e.meta[f]
          \/ f = "is_squash" /\ HydrateMeta(i)[f] = "false"
    BY <1>1, HydratedMeta
  <2> QED
    BY <2>1, <1>2
<1>5. ASSUME IsShell(e.type)
      PROVE  h.meta["cwd"] \in Field(e.context, "cwd") \union {""}
  <2>1. HydrateMeta(i)["cwd"] =
          IF "cwd" \in DOMAIN MapContext(i) THEN MapContext(i)["cwd"] ELSE ""
    BY <1>1, <1>5, HydratedMeta
  <2> QED
    BY <1>2, <2>1 DEF Field
<1> QED
  BY <1>2, <1>3, <1>4, <1>5 DEF ReadsBack, e, h

LEMMA NothingUnredactedHolds ==
  ASSUME IInv, Kept, NEW i \in DOMAIN db.rows
  PROVE  NothingUnredacted(i)
<1> DEFINE e == accepted[i]
           h == HydrateEvent(i)
<1>1. Stored(db, i, e) /\ Offered(e)
  BY DEF Kept
<1> HIDE DEF e
<1>2. h.list = e.list /\ h.meta = HydrateMeta(i) /\ h.context = e.context
  BY <1>1, HydratedEvent
<1> HIDE DEF h
<1>3. \A f \in DOMAIN h.meta \ {"cwd"} : h.meta[f] \notin Secrets
  <2>1. \A f \in DOMAIN HydrateMeta(i) \ {"cwd"} :
          \/ f \in DOMAIN e.meta /\ f # "hostname" /\ HydrateMeta(i)[f] = e.meta[f]
          \/ f = "is_squash" /\ HydrateMeta(i)[f] = "false"
    BY <1>1, HydratedMeta
  <2>2. \A f \in DOMAIN e.meta : e.meta[f] \notin Secrets
    BY <1>1, OfferedClean
  <2> QED
    BY <2>1, <2>2, <1>2, ValueAssumption
<1>4. \A n \in DOMAIN h.list : h.list[n] \notin Secrets
  BY <1>1, <1>2, OfferedClean
<1>5. \A w \in db.rows[i].search_text \ ContextTokens(h.context) : w \notin Secrets
  <2>1. db.rows[i].search_text = DeriveSearchText(e)
    BY <1>1 DEF Stored, RowStored
  <2>2. \A w \in Keyword(e) : w \notin Secrets
    BY ValueAssumption DEF Keyword
  <2>3. \A f : \A w \in Field(e.meta, f) : w \notin Secrets
    BY <1>1, OfferedClean DEF Field
  <2>4. \A n \in DOMAIN e.list : e.list[n] \notin Secrets
    BY <1>1, OfferedClean
  <2> QED
    BY <1>2, <2>1, <2>2, <2>3, <2>4 DEF DeriveSearchText
<1> QED
  BY <1>3, <1>4, <1>5 DEF NothingUnredacted, h

\* The words a search is promised to find an event by are in its search text.
LEMMA WordsIndexed ==
  ASSUME NEW e, Offered(e), NEW f \in DOMAIN e.meta,
         f \in {"command", "message", "content", "target", "to_branch", "merge_commit_sha"}
  PROVE  e.meta[f] \in DeriveSearchText(e)
<1>1. e.type \in Types /\ f \in Required(e.type) \union Optional(e.type)
  BY OfferedClean
<1>2. f \in Searched(e.type)
  BY <1>1 DEF Types, Required, Optional, Searched, IsShell
<1>3. e.meta[f] \in Field(e.meta, f)
  BY DEF Field
<1>4. e.meta[f] \in UNION {Field(e.meta, g) : g \in Searched(e.type)}
  BY <1>2, <1>3
<1> QED
  BY <1>4 DEF DeriveSearchText

\* A page as long as the table has room for every row that matches.
LEMMA PageHasRoom ==
  ASSUME IInv, NEW i \in DOMAIN db.rows, NEW hits \in SUBSET DOMAIN db.rows
  PROVE  Cardinality({j \in hits : Ahead(j, i)}) < Cardinality(DOMAIN db.rows)
<1> DEFINE ahead == {j \in hits : Ahead(j, i)}
<1>1. DOMAIN db.rows = 1 .. (db.next - 1) /\ db.next \in Nat \ {0}
  BY DEF IInv, RecordsTypeOK, SettledTables
<1>2. IsFiniteSet(DOMAIN db.rows)
  BY <1>1, FS_Interval
<1>3. i \notin ahead
  <2>1. db.rows[i].at \in Clock
    BY DEF IInv, RecordsTypeOK, SettledTables
  <2>2. db.rows[i].at \in Nat
    BY <2>1, ValueAssumption
  <2>3. ~Ahead(i, i)
    <3>1. i \in 1 .. (db.next - 1)
      BY <1>1
    <3>2. i \in Nat
      BY <3>1, <1>1
    <3> QED
      BY <2>2, <3>2 DEF Ahead
  <2> QED
    BY <2>3
<1>4. ahead \subseteq DOMAIN db.rows /\ ahead # DOMAIN db.rows
  BY <1>3
<1>5. IsFiniteSet(ahead) /\ Cardinality(ahead) <= Cardinality(DOMAIN db.rows)
      /\ Cardinality(ahead) # Cardinality(DOMAIN db.rows)
  BY <1>2, <1>4, FS_Subset
<1>6. Cardinality(ahead) \in Nat /\ Cardinality(DOMAIN db.rows) \in Nat
  BY <1>2, <1>5, FS_CardinalityType
<1> QED
  BY <1>5, <1>6

LEMMA FoundAgainHolds ==
  ASSUME IInv, Kept, NEW i \in DOMAIN db.rows
  PROVE  FoundAgain(i)
<1> DEFINE e == accepted[i]
           h == HydrateEvent(i)
           own == [k \in DOMAIN h.context \union {"type", "source", "after", "before"} |->
                    CASE k = "type" -> h.type
                      [] k = "source" -> SourceForEvent(h.type)
                      [] k \in {"after", "before"} -> h.at
                      [] OTHER -> h.context[k]]
           named == {"command", "message", "content", "target", "to_branch", "merge_commit_sha"}
           words == {h.list[n] : n \in DOMAIN h.list} \union
                      UNION {Field(h.meta, f) : f \in named}
<1>1. Stored(db, i, e) /\ Offered(e)
  BY DEF Kept
<1> HIDE DEF e
<1>2. /\ h.type = e.type /\ h.at = db.rows[i].at /\ h.context = MapContext(i)
      /\ h.context = e.context /\ h.list = e.list /\ h.meta = HydrateMeta(i)
  BY <1>1, HydratedEvent
<1>3. /\ db.rows[i].type = e.type /\ db.rows[i].source = SourceForEvent(e.type)
      /\ db.rows[i].search_text = DeriveSearchText(e)
  BY <1>1 DEF Stored, RowStored
<1>4. db.rows[i].at \in Nat
  BY ValueAssumption DEF IInv, RecordsTypeOK, SettledTables
<1>5. DOMAIN h.context \intersect {"type", "source", "after", "before"} = {}
  BY <1>1, <1>2, OfferedClean DEF ContextKeys
<1> HIDE DEF h
<1>6. Matches(i, own)
  <2> SUFFICES ASSUME NEW k \in DOMAIN own
               PROVE  CASE k = "type" -> db.rows[i].type = own[k]
                        [] k = "source" -> db.rows[i].source = own[k]
                        [] k = "after" -> db.rows[i].at >= own[k]
                        [] k = "before" -> db.rows[i].at <= own[k]
                        [] OTHER -> k \in DOMAIN MapContext(i) /\ MapContext(i)[k] = own[k]
    BY DEF Matches
  <2>1. CASE k = "type"
    BY <2>1, <1>2, <1>3
  <2>2. CASE k = "source"
    BY <2>2, <1>2, <1>3
  <2>3. CASE k \in {"after", "before"}
    <3>1. own[k] = db.rows[i].at
      BY <2>3, <1>2
    <3> QED
      BY <2>3, <3>1, <1>4
  <2>4. CASE k \in DOMAIN h.context
    <3>1. own[k] = h.context[k]
      BY <2>4, <1>5
    <3> QED
      BY <2>4, <3>1, <1>2, <1>5
  <2> QED
    BY <2>1, <2>2, <2>3, <2>4
<1> HIDE DEF own
<1>7. i \in GetEvents(own, Cardinality(DOMAIN db.rows))
  BY <1>6, PageHasRoom DEF GetEvents
<1>8. \A w \in words : w \in db.rows[i].search_text
  <2>1. \A n \in DOMAIN h.list : h.list[n] \in DeriveSearchText(e)
    BY <1>2 DEF DeriveSearchText
  <2>2. \A f \in named : \A w \in Field(h.meta, f) : w \in DeriveSearchText(e)
    <3> SUFFICES ASSUME NEW f \in named, f \in DOMAIN h.meta
                 PROVE  h.meta[f] \in DeriveSearchText(e)
      BY DEF Field
    <3>1. f \in DOMAIN HydrateMeta(i) \ {"cwd"} /\ f # "is_squash"
      BY <1>2
    <3>2. f \in DOMAIN e.meta /\ HydrateMeta(i)[f] = e.meta[f]
      BY <3>1, <1>1, HydratedMeta, Zenon
    <3> QED
      BY <3>2, <1>1, <1>2, WordsIndexed
  <2> QED
    BY <2>1, <2>2, <1>3
<1>9. \A w \in words : i \in SearchEvents({w}, own)
  BY <1>6, <1>8 DEF SearchEvents
<1>10. \A page : i \in page => h \in HydrateEvents(page)
  BY DEF h, HydrateEvents
<1>11. /\ h \in HydrateEvents(GetEvents(own, Cardinality(DOMAIN db.rows)))
       /\ \A w \in words : h \in HydrateEvents(SearchEvents({w}, own))
  BY <1>7, <1>9, <1>10
<1> QED
  BY <1>11 DEF FoundAgain, h, own

\* One row for each event_id, and what readers get of it is the event as it was
\* accepted: complete, redacted, and on the pages and searches that should have it,
\* whatever is offered, sent again, or rolled back.
THEOREM ReadsAsAccepted == Spec => []AcceptedReadsBack
<1>1. IInv /\ Kept => AcceptedReadsBack
  BY ReadsBackHolds, NothingUnredactedHolds, FoundAgainHolds DEF AcceptedReadsBack, Kept
<1> QED
  BY InvHolds, KeptHolds, <1>1, PTL

==============================================================================
