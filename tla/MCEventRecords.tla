--------------------------- MODULE MCEventRecords ---------------------------
EXTENDS EventRecords

\* Every type once with all its fields and a context, once with the required ones
\* only; `key` is a value the scanner finds, `tmp` a field the schema does not know.
Value(f) == CASE f \in {"command", "message", "content", "target"} -> "key"
              [] f = "is_squash" -> "true"
              [] f \in {"cwd", "hostname", "tmp"} -> "dir"
              [] OTHER -> f

Full(type, event_id) ==
  [event_id |-> event_id, type |-> type, at |-> 1, session_id |-> "s",
   meta |-> [f \in Required(type) \union Optional(type) \union {"tmp"} |-> Value(f)],
   context |-> [k \in {"cwd", "branch", "worktree_root"} |-> IF k = "branch" THEN "b" ELSE "root"],
   list |-> IF type \in {"git.commit.created", "git.rewrite"} THEN <<"f", "key", "g">> ELSE <<>>]

Bare(type, event_id) ==
  [event_id |-> event_id, type |-> type, at |-> Null, session_id |-> Null,
   meta |-> [f \in Required(type) |-> f], context |-> [k \in {} |-> Null], list |-> <<>>]

MCOffers == {Full(type, "e1") : type \in Types} \union {Bare(type, "e2") : type \in Types}
              \union {[Bare("ai.prompt", "e1") EXCEPT !.context = [k \in {"branch"} |-> "key"]],
                      Full("git.rewrite", "e2"),
                      [Bare("git.merge", "e2") EXCEPT !.meta = [f \in {"tmp"} |-> "key"]]}

MCBasename == [v \in {"root", "b", "dir"} |-> IF v = "root" THEN "leaf" ELSE v]
MCClock == {1, 2}
=============================================================================
