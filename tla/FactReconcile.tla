---------------------------- MODULE FactReconcile ----------------------------
(***************************************************************************)
(* The facts of one key.  The intel service reconciles what the extractor  *)
(* read from an event with what is stored: it looks up the current fact,   *)
(* inserts the new one and then invalidates the old one, in two writes.    *)
(* POST /facts and the agent's store-fact tool insert without looking.     *)
(*                                                                         *)
(* Keys do not touch each other, so one is enough; candidates for other    *)
(* keys change nothing here.  A reconciliation awaits nothing but          *)
(* synchronous store calls: no other writer runs inside it, but the        *)
(* process can die, or a store call throw, between any two of its writes.  *)
(***************************************************************************)
EXTENDS Naturals, Sequences, FiniteSets

CONSTANTS
    Events,         \* events the extractor reads the key from
    Values,         \* values of the key
    Answers,        \* candidates for the key in one extraction, in order
    AutoApprove,    \* intel.auto_approve
    MaxJobs,        \* bound: reconciliations
    MaxWrites,      \* bound: facts written by the API and the agent
    MaxInterrupts   \* bound: crashes and throwing store calls

ASSUME FactAssumption ==
    /\ Answers \subseteq Seq(Values)
    /\ AutoApprove \in BOOLEAN
    /\ MaxJobs \in Nat /\ MaxWrites \in Nat /\ MaxInterrupts \in Nat

VARIABLES
    facts,       \* rows in the order of _rowid; a fact's id is its place
    processed,
    job,         \* events being reconciled: none or one
    answer,      \* what the extractor gave for it
    left,        \* candidates not handled yet
    stage,       \* "idle", "lookup" or "invalidate"
    old,         \* the fact to invalidate
    torn,        \* history: facts whose successor was inserted, but not they invalidated
    jobs, writes, interrupts

jobVars == <<job, answer, left, stage, old>>
bounds == <<jobs, writes, interrupts>>
vars == <<facts, processed, jobVars, torn, bounds>>

None == 0    \* supersedes_fact_id is null

Fact == [value : Values, by : {"intel", "api", "agent"}, status : {"active", "pending"},
         open : BOOLEAN, supersedes : Nat]

\* getFacts with active_only: active and not invalidated.
Current == {i \in 1..Len(facts) : facts[i].status = "active" /\ facts[i].open}

\* ... with limit 1: the newest of them.
IsNewest(i) == i \in Current /\ \A j \in Current : j <= i

\* Mutant: a status of the config, not of the schema.
StatusApproved(by) ==
    IF by \in {"intel", "agent"}
    THEN IF AutoApprove THEN "approved" ELSE "pending"
    ELSE "active"

\* normalizeFactStatus
StatusOf(by) == IF by \in {"intel", "agent"} /\ ~AutoApprove THEN "pending" ELSE "active"

\* insertFact
InsertFact(v, by, open, supersedes) ==
    facts' = Append(facts, [value |-> v, by |-> by, status |-> StatusOf(by), open |-> open,
                            supersedes |-> supersedes])

\* invalidateFact
InvalidateFact(i) == facts' = [facts EXCEPT ![i].open = FALSE]

Init ==
    /\ facts = <<>> /\ processed = {}
    /\ job = {} /\ answer = <<>> /\ left = <<>> /\ stage = "idle" /\ old = None
    /\ torn = {}
    /\ jobs = 0 /\ writes = 0 /\ interrupts = 0

-----------------------------------------------------------------------------
\* POST /facts: the body may carry valid_to and supersedes_fact_id.
ApiFact(v, open, supersedes) ==
    /\ stage = "idle"
    /\ writes < MaxWrites /\ writes' = writes + 1
    /\ InsertFact(v, "api", open, supersedes)
    /\ UNCHANGED <<processed, jobVars, torn, jobs, interrupts>>

\* The store-fact tool.
AgentFact(v) ==
    /\ stage = "idle"
    /\ writes < MaxWrites /\ writes' = writes + 1
    /\ InsertFact(v, "agent", TRUE, None)
    /\ UNCHANGED <<processed, jobVars, torn, jobs, interrupts>>

\* extract() resolved.  An event that is redelivered or retried comes again,
\* and the model may then answer otherwise.
Extracted(e, s) ==
    /\ stage = "idle"
    /\ jobs < MaxJobs /\ jobs' = jobs + 1
    /\ job' = {e} /\ answer' = s /\ left' = s
    /\ stage' = "lookup"
    /\ UNCHANGED <<facts, processed, old, torn, writes, interrupts>>

\* The current fact has the candidate's value.
SkipKnown ==
    /\ stage = "lookup" /\ left # <<>>
    /\ \E i \in 1..Len(facts) : IsNewest(i) /\ facts[i].value = Head(left)
    /\ left' = Tail(left)
    /\ UNCHANGED <<facts, processed, job, answer, stage, old, torn, bounds>>

InsertFirst ==
    /\ stage = "lookup" /\ left # <<>> /\ Current = {}
    /\ InsertFact(Head(left), "intel", TRUE, None)
    /\ left' = Tail(left)
    /\ UNCHANGED <<processed, job, answer, stage, old, torn, bounds>>

\* Mutant: the successor is linked and its predecessor left open.
InsertLinked ==
    /\ stage = "lookup" /\ left # <<>>
    /\ \E i \in 1..Len(facts) :
          /\ IsNewest(i) /\ facts[i].value # Head(left)
          /\ InsertFact(Head(left), "intel", TRUE, i)
    /\ left' = Tail(left)
    /\ UNCHANGED <<processed, job, answer, stage, old, torn, bounds>>

InsertSuccessor ==
    /\ stage = "lookup" /\ left # <<>>
    /\ \E i \in 1..Len(facts) :
          /\ IsNewest(i) /\ facts[i].value # Head(left)
          /\ InsertFact(Head(left), "intel", TRUE, i)
          /\ old' = i
    /\ stage' = "invalidate"
    /\ UNCHANGED <<processed, job, answer, left, torn, bounds>>

\* Mutant: invalidates everything the lookup would return now.
InvalidateCurrent ==
    /\ stage = "invalidate"
    /\ facts' = [i \in 1..Len(facts) |->
                   IF i \in Current THEN [facts[i] EXCEPT !.open = FALSE] ELSE facts[i]]
    /\ left' = Tail(left)
    /\ stage' = "lookup" /\ old' = None
    /\ UNCHANGED <<processed, job, answer, torn, bounds>>

InvalidateOld ==
    /\ stage = "invalidate"
    /\ InvalidateFact(old)
    /\ left' = Tail(left)
    /\ stage' = "lookup" /\ old' = None
    /\ UNCHANGED <<processed, job, answer, torn, bounds>>

\* All candidates are handled: markProcessed.
MarkProcessed ==
    /\ stage = "lookup" /\ left = <<>>
    /\ processed' = processed \cup job
    /\ job' = {} /\ answer' = <<>> /\ stage' = "idle"
    /\ UNCHANGED <<facts, left, old, torn, bounds>>

\* The process dies or a store call throws: the event is taken again later.
Interrupted ==
    /\ stage # "idle"
    /\ interrupts < MaxInterrupts /\ interrupts' = interrupts + 1
    /\ torn' = IF stage = "invalidate" THEN torn \cup {old} ELSE torn
    /\ job' = {} /\ answer' = <<>> /\ left' = <<>> /\ stage' = "idle" /\ old' = None
    /\ UNCHANGED <<facts, processed, jobs, writes>>

Next ==
    \/ \E v \in Values, open \in BOOLEAN, s \in 0..Len(facts) : ApiFact(v, open, s)
    \/ \E v \in Values : AgentFact(v)
    \/ \E e \in Events, s \in Answers : Extracted(e, s)
    \/ SkipKnown \/ InsertFirst \/ InsertSuccessor \/ InvalidateOld
    \/ MarkProcessed \/ Interrupted

Spec == Init /\ [][Next]_vars

-----------------------------------------------------------------------------
(* Properties *)

TypeOK ==
    /\ facts \in Seq(Fact)
    /\ processed \subseteq Events /\ job \subseteq Events
    /\ answer \in Seq(Values) /\ left \in Seq(Values)
    /\ stage \in {"idle", "lookup", "invalidate"}
    /\ old \in Nat /\ torn \subseteq Nat
    /\ jobs \in Nat /\ writes \in Nat /\ interrupts \in Nat

\* The order of the two writes: a key that has a current fact has one at every
\* later moment, wherever a reconciliation is interrupted, as long as what
\* intel writes counts at once.
NeverForgotten == [][AutoApprove /\ Current # {} => Current' # {}]_vars

\* What intel supersedes is invalidated, except for the fact under way and for
\* those whose reconciliation was interrupted between the two writes.
SupersededClosed ==
    \A j \in 1..Len(facts) :
        facts[j].by = "intel" /\ facts[j].supersedes # None =>
            \/ ~facts[facts[j].supersedes].open
            \/ facts[j].supersedes \in torn
            \/ stage = "invalidate" /\ old = facts[j].supersedes

\* Intel by itself never adds a current fact beside another: surplus ones come
\* from the API, the agent and interruptions, one each.
SurplusAccounted ==
    LET surplus == writes + interrupts
    IN  Cardinality(Current) <= surplus + (IF stage = "invalidate" THEN 2 ELSE 1)

\* When an event is marked, the current fact says what was read from it last.
MarkedIsCurrent ==
    AutoApprove /\ stage = "lookup" /\ left = <<>> /\ answer # <<>> =>
        \E i \in 1..Len(facts) : IsNewest(i) /\ facts[i].value = answer[Len(answer)]

=============================================================================
