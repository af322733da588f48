---------------------------- MODULE EventRecords ----------------------------
(***************************************************************************)
(* What becomes of an event between the ingestion route and a reader: the  *)
(* pipeline (pipeline/), the transaction of appendEvent over the envelope, *)
(* context, payload and child tables (store/sqlite/event-store.ts,         *)
(* event-payloads.ts), the search text (search-text.ts), and the way back  *)
(* out through getEvents, searchEvents and hydrateEvents                   *)
(* (event-hydrators.ts).  Values are strings; `list` is the one array a    *)
(* type can have (files of a commit, mappings of a rewrite).               *)
(***************************************************************************)
EXTENDS Naturals, Sequences, FiniteSets

CONSTANTS Offers,    \* the events producers may send
          Secrets,   \* the values the scanner finds
          Masked,    \* what replaces them
          Basename,  \* the last component of a path
          Clock,     \* times of appending
          Null,
          MaxAppends

Types == {"shell.command.executed", "shell.command.started", "git.commit.created",
          "git.checkout", "git.merge", "git.rewrite", "ai.prompt", "ai.tool_call",
          "note.created"}

Fields == {"event_id", "type", "at", "session_id", "meta", "context", "list"}

ASSUME OffersAssumption ==
  \A e \in Offers : /\ e = [f \in Fields |-> e[f]]
                    /\ e.type \in Types
                    /\ e.at \in Clock \union {Null}
                    /\ \A f \in DOMAIN e.meta : e.meta[f] # Null
                    /\ e.context = [k \in DOMAIN e.context |-> e.context[k]]
                    /\ e.list \in Seq(STRING)
\* The scanner finds neither its own mark nor the words the store adds.
ASSUME ValueAssumption == /\ Clock \subseteq Nat
                          /\ Masked # Null
                          /\ Secrets \intersect {Masked, "false", "checkout", "merge", "squash"} = {}
                          /\ MaxAppends \in Nat

VARIABLES db,        \* what is committed: next row id, rows, contexts, payloads, lists
          work,      \* the same inside the open transaction
          txn,       \* the event being appended, or Null
          step,      \* what its transaction does next
          accepted,  \* history: the event each committed row was made from
          appends    \* bound: calls of appendEvent so far

vars == <<db, work, txn, step, accepted, appends>>

------------------------------------------------------------------------------
(* The schema of an event, and the columns of its payload table. *)
Required(type) ==
  CASE type = "shell.command.executed" -> {"command", "exit_code", "duration_ms", "cwd"}
    [] type = "shell.command.started"  -> {"command", "cwd"}
    [] type = "git.commit.created"     -> {"hash", "message", "parent_count", "files_changed"}
    [] type = "git.checkout"           -> {"checkout_kind"}
    [] type = "git.merge"              -> {"merge_commit_sha", "parent_count"}
    [] type = "git.rewrite"            -> {"rewrite_type", "rewritten_commit_count"}
    [] type = "ai.tool_call"           -> {"tool_name"}
    [] OTHER                           -> {"content"}

Optional(type) ==
  CASE type \in {"shell.command.executed", "shell.command.started"} -> {"hostname"}
    [] type = "git.commit.created" -> {"insertions", "deletions"}
    [] type = "git.checkout"       -> {"from_branch", "to_branch", "from_sha", "to_sha"}
    [] type = "git.merge"          -> {"is_squash"}
    [] type = "ai.tool_call"       -> {"target", "description"}
    [] OTHER                       -> {}

IsShell(type) == type \in {"shell.command.executed", "shell.command.started"}

Columns(type) == (Required(type) \union Optional(type)) \ {"cwd", "hostname"}

ContextKeys == {"repo_id", "worktree_root", "branch", "head_sha", "git_state", "cwd",
                "relative_cwd", "terminal_session", "tool", "thread_id"}

SourceForEvent(type) == CASE IsShell(type) -> "shell"
                          [] type \in {"git.commit.created", "git.checkout", "git.merge",
                                       "git.rewrite"} -> "git"
                          [] type \in {"ai.prompt", "ai.tool_call"} -> "ai"
                          [] OTHER -> "manual"

------------------------------------------------------------------------------
(* The pipeline: validate, redact the strings of the metadata, enrich. *)
Validate(e) == /\ Required(e.type) \subseteq DOMAIN e.meta
               /\ DOMAIN e.context \subseteq ContextKeys

\* Unknown fields of the metadata are left out.
Strip(e) == [e EXCEPT !.meta =
  [f \in DOMAIN e.meta \intersect (Required(e.type) \union Optional(e.type)) |-> e.meta[f]]]

Scrub(value) == IF value \in Secrets THEN Masked ELSE value

Redact(e) == [e EXCEPT !.meta = [f \in DOMAIN e.meta |-> Scrub(e.meta[f])],
                       !.list = [n \in DOMAIN e.list |-> Scrub(e.list[n])]]

Enrich(e) == [e EXCEPT !.session_id = IF @ = Null THEN e.event_id ELSE @]

Transformed(e) == Enrich(Redact(Strip(e)))

------------------------------------------------------------------------------
(* The tokens of the full-text index. *)
Field(f, k) == IF k \in DOMAIN f THEN {f[k]} ELSE {}

ContextTokens(context) ==
  LET place == IF "worktree_root" \in DOMAIN context THEN "worktree_root" ELSE "repo_id"
  IN {Basename[v] : v \in Field(context, place)}
       \union UNION {Field(context, k) : k \in {"branch", "relative_cwd", "tool", "thread_id"}}

Searched(type) ==
  CASE IsShell(type) -> {"command", "cwd"}
    [] type = "git.commit.created" -> {"message", "parent_count"}
    [] type = "git.merge" -> {"merge_commit_sha", "parent_count"}
    [] OTHER -> Required(type) \union Optional(type)

Keyword(e) == CASE e.type = "git.checkout" -> {"checkout"}
                [] e.type = "git.merge" -> {"merge"} \union
                     (IF "true" \in Field(e.meta, "is_squash") THEN {"squash"} ELSE {})
                [] OTHER -> {}

DeriveSearchText(e) ==
  Keyword(e) \union (UNION {Field(e.meta, f) : f \in Searched(e.type)})
    \union {e.list[n] : n \in DOMAIN e.list} \union ContextTokens(e.context)

------------------------------------------------------------------------------
(* appendEvent *)
EmptyMap == [i \in {} |-> Null]

With(map, i, value) == [j \in DOMAIN map \union {i} |-> IF j = i THEN value ELSE map[j]]

Init == /\ db = [next |-> 1, rows |-> EmptyMap, contexts |-> EmptyMap,
                 payloads |-> EmptyMap, lists |-> EmptyMap]
        /\ work = db
        /\ txn = Null
        /\ step = "idle"
        /\ accepted = EmptyMap
        /\ appends = 0

Known(tables, event_id) ==
  \E i \in DOMAIN tables.rows : tables.rows[i].event_id = event_id

\* BEGIN IMMEDIATE, and the SELECT for the event_id; a duplicate ends here.
Begin(e) == /\ step = "idle"
            /\ appends < MaxAppends
            /\ Validate(e)
            /\ txn' = Transformed(e)
            /\ step' = IF Known(db, e.event_id) THEN "commit" ELSE "envelope"
            /\ work' = db
            /\ appends' = appends + 1
            /\ UNCHANGED <<db, accepted>>

\* The row the open transaction has inserted.
Id == work.next - 1

InsertEnvelope == /\ step = "envelope"
                  /\ \E now \in Clock :
                       work' = [work EXCEPT
                         !.next = @ + 1,
                         !.rows = With(@, work.next,
                           [event_id |-> txn.event_id, type |-> txn.type,
                            source |-> SourceForEvent(txn.type), session_id |-> txn.session_id,
                            at |-> IF txn.at = Null THEN now ELSE txn.at,
                            search_text |-> DeriveSearchText(txn)])]
                  /\ step' = "context"
                  /\ UNCHANGED <<db, txn, accepted, appends>>

\* An event without a context gets no context row.
InsertContext == /\ step = "context"
                 /\ work' = IF DOMAIN txn.context = {} THEN work
                            ELSE [work EXCEPT !.contexts = With(@, Id, txn.context)]
                 /\ step' = "payload"
                 /\ UNCHANGED <<db, txn, accepted, appends>>

PayloadRow(e) == [c \in Columns(e.type) |-> IF c \in DOMAIN e.meta THEN e.meta[c]
                                            ELSE IF c = "is_squash" THEN "false" ELSE Null]

\* Mutant: the switch over the types has no case for a note.
InsertPayloadNoNote == /\ step = "payload"
                       /\ work' = IF txn.type = "note.created" THEN work
                                  ELSE [work EXCEPT !.payloads = With(@, Id, PayloadRow(txn))]
                       /\ step' = IF txn.list = <<>> THEN "commit" ELSE "list"
                       /\ UNCHANGED <<db, txn, accepted, appends>>

InsertPayload == /\ step = "payload"
                 /\ work' = [work EXCEPT !.payloads = With(@, Id, PayloadRow(txn))]
                 /\ step' = IF txn.list = <<>> THEN "commit" ELSE "list"
                 /\ UNCHANGED <<db, txn, accepted, appends>>

\* Mutant: the items come back in the opposite order.
InsertListReversed ==
  LET before == IF Id \in DOMAIN work.lists THEN work.lists[Id] ELSE <<>>
      now    == <<txn.list[Len(before) + 1]>> \o before
  IN /\ step = "list"
     /\ work' = [work EXCEPT !.lists = With(@, Id, now)]
     /\ step' = IF Len(now) = Len(txn.list) THEN "commit" ELSE "list"
     /\ UNCHANGED <<db, txn, accepted, appends>>

\* One INSERT per file or mapping, in the order of the array.
InsertListItem ==
  LET before == IF Id \in DOMAIN work.lists THEN work.lists[Id] ELSE <<>>
      now    == Append(before, txn.list[Len(before) + 1])
  IN /\ step = "list"
     /\ work' = [work EXCEPT !.lists = With(@, Id, now)]
     /\ step' = IF Len(now) = Len(txn.list) THEN "commit" ELSE "list"
     /\ UNCHANGED <<db, txn, accepted, appends>>

Commit == /\ step = "commit"
          /\ db' = work
          /\ accepted' = IF work.next = db.next THEN accepted ELSE With(accepted, Id, txn)
          /\ txn' = Null
          /\ step' = "idle"
          /\ UNCHANGED <<work, appends>>

\* Mutant: payload rows are inserted on a connection outside the transaction.
RollbackKeepsPayload == /\ step # "idle"
                        /\ db' = [db EXCEPT !.payloads = work.payloads]
                        /\ work' = db'
                        /\ txn' = Null
                        /\ step' = "idle"
                        /\ UNCHANGED <<accepted, appends>>

\* Any statement may throw: ROLLBACK.  A crash rolls back as well.
Rollback == /\ step # "idle"
            /\ work' = db
            /\ txn' = Null
            /\ step' = "idle"
            /\ UNCHANGED <<db, accepted, appends>>

Next == \/ \E e \in Offers : Begin(e)
        \/ InsertEnvelope \/ InsertContext \/ InsertPayload \/ InsertListItem
        \/ Commit \/ Rollback

Spec == Init /\ [][Next]_vars

------------------------------------------------------------------------------
(* Readers see committed tables. *)
MapContext(i) == IF i \in DOMAIN db.contexts THEN db.contexts[i] ELSE EmptyMap

\* The row of the payload table of the event's type, and the child rows in order.
PayloadOf(i) == db.payloads[i]
ListOf(i) == IF i \in DOMAIN db.lists THEN db.lists[i] ELSE <<>>

HydrateMeta(i) ==
  LET row  == db.rows[i]
      kept == {c \in Columns(row.type) : PayloadOf(i)[c] # Null}
      cwd  == IF "cwd" \in DOMAIN MapContext(i) THEN MapContext(i)["cwd"] ELSE ""
  IN [f \in kept \union (IF IsShell(row.type) THEN {"cwd"} ELSE {}) |->
        IF f = "cwd" THEN cwd ELSE PayloadOf(i)[f]]

HydrateEvent(i) == [event_id |-> db.rows[i].event_id, type |-> db.rows[i].type,
                    at |-> db.rows[i].at, session_id |-> db.rows[i].session_id,
                    meta |-> HydrateMeta(i), context |-> MapContext(i),
                    list |-> ListOf(i)]

HydrateEvents(page) == {HydrateEvent(i) : i \in page}

\* Equality on type, source and the indexed context columns; bounds are inclusive.
Matches(i, filter) ==
  \A k \in DOMAIN filter :
    CASE k = "type" -> db.rows[i].type = filter[k]
      [] k = "source" -> db.rows[i].source = filter[k]
      [] k = "after" -> db.rows[i].at >= filter[k]
      [] k = "before" -> db.rows[i].at <= filter[k]
      [] OTHER -> k \in DOMAIN MapContext(i) /\ MapContext(i)[k] = filter[k]

\* Newest first; rows of one second in the order they were inserted.
Ahead(i, j) == \/ db.rows[i].at > db.rows[j].at
               \/ db.rows[i].at = db.rows[j].at /\ i > j

\* The rows a page holds, their order being Ahead.  A limit of the code's is at
\* least 1 and at most MAX_LIMIT (clampLimit).
GetEvents(filter, limit) ==
  LET hits == {i \in DOMAIN db.rows : Matches(i, filter)}
  IN {i \in hits : Cardinality({j \in hits : Ahead(j, i)}) < limit}

\* The rows that contain any of the words asked for, as many as the limit lets
\* through: which ones go, by relevance, is left out with the limit.
SearchEvents(words, filter) ==
  {i \in DOMAIN db.rows : Matches(i, filter) /\ words \intersect db.rows[i].search_text # {}}

------------------------------------------------------------------------------
(* Properties *)
Steps == {"idle", "envelope", "context", "payload", "list", "commit"}

\* Rows 1 .. n and what hangs on them.
SettledTables(t) ==
  /\ t.next \in Nat \ {0}
  /\ DOMAIN t.rows = 1 .. (t.next - 1)
  /\ DOMAIN t.contexts \subseteq DOMAIN t.rows
  /\ DOMAIN t.payloads \subseteq DOMAIN t.rows
  /\ DOMAIN t.lists \subseteq DOMAIN t.rows
  /\ \A i \in DOMAIN t.rows : t.rows[i].type \in Types /\ t.rows[i].at \in Clock

\* Type invariant: context, payload and child rows belong to envelopes, the open
\* transaction is at most one envelope ahead, rows match their history.
RecordsTypeOK ==
  /\ step \in Steps
  /\ appends \in 0 .. MaxAppends
  /\ SettledTables(db)
  /\ SettledTables(work)
  /\ work.next \in {db.next, db.next + 1}
  /\ DOMAIN accepted = DOMAIN db.rows

Hydrates(t, i) ==
  /\ i \in DOMAIN t.payloads
  /\ DOMAIN t.payloads[i] = Columns(t.rows[i].type)
  /\ \A c \in Required(t.rows[i].type) \ {"cwd"} : t.payloads[i][c] # Null

\* hydrateEvents throws for the whole page if one envelope has no payload row, so one
\* torn event would hide all the others (event-store.ts:83).  Whatever statement of
\* whatever append fails, each committed envelope has the row of its own type, with
\* every column the schema requires.
EveryRowHydrates == \A i \in DOMAIN db.rows : Hydrates(db, i)

\* What a producer sent first under an event_id is what readers get: every field of it
\* but `hostname`, the directory as the context has it, lists in their order, its
\* own time if it had one, and no field of another event (event-payloads.ts,
\* event-hydrators.ts).
ReadsBack(i) ==
  LET e == accepted[i]
      h == HydrateEvent(i)
      same == DOMAIN e.meta \ {"cwd", "hostname"}
  IN /\ h.event_id = e.event_id /\ h.type = e.type /\ h.session_id = e.session_id
     /\ e.at \in {Null, h.at}
     /\ h.context = e.context
     /\ h.list = e.list
     /\ \A f \in same : f \in DOMAIN h.meta /\ h.meta[f] = e.meta[f]
     /\ \A f \in DOMAIN h.meta \ (same \union {"cwd"}) : f = "is_squash" /\ h.meta[f] = "false"
     /\ IsShell(e.type) => h.meta["cwd"] \in Field(e.context, "cwd") \union {""}

\* Nothing the scanner finds in the metadata is stored or indexed (redact.ts:165).  The
\* context is not scanned: what comes from it, the directory of a shell command and
\* the words of the context, is the one exception.
NothingUnredacted(i) ==
  LET h == HydrateEvent(i)
  IN Secrets \intersect ({h.meta[f] : f \in DOMAIN h.meta \ {"cwd"}} \union
       {h.list[n] : n \in DOMAIN h.list} \union
       (db.rows[i].search_text \ ContextTokens(h.context))) = {}

\* Every event is on the page its own context, type and time select, and the words
\* of its text find it (event-store.ts:419, :444).
FoundAgain(i) ==
  LET h == HydrateEvent(i)
      own == [k \in DOMAIN h.context \union {"type", "source", "after", "before"} |->
                CASE k = "type" -> h.type
                  [] k = "source" -> SourceForEvent(h.type)
                  [] k \in {"after", "before"} -> h.at
                  [] OTHER -> h.context[k]]
      words == {h.list[n] : n \in DOMAIN h.list} \union
                 UNION {Field(h.meta, f) : f \in {"command", "message", "content", "target",
                                                  "to_branch", "merge_commit_sha"}}
  IN /\ h \in HydrateEvents(GetEvents(own, Cardinality(DOMAIN db.rows)))
     /\ \A w \in words : h \in HydrateEvents(SearchEvents({w}, own))

\* One event_id, one row, and the row reads back as it was accepted, redacted and
\* findable, whatever was retried, rolled back or sent twice with other content.
AcceptedReadsBack ==
  /\ \A i, j \in DOMAIN db.rows : db.rows[i].event_id = db.rows[j].event_id => i = j
  /\ \A i \in DOMAIN db.rows : ReadsBack(i) /\ NothingUnredacted(i) /\ FoundAgain(i)

==============================================================================
