------------------------- MODULE CaptureSpool_proofs -------------------------
(***************************************************************************)
(* TLAPS proofs about CaptureSpool, for any hooks, any pipeline verdicts   *)
(* and any number of crashes, failures and unreadable files: the spool     *)
(* never loses a line it was handed in a protected window, and an event is *)
(* stored at most once.                                                    *)
(***************************************************************************)
EXTENDS CaptureSpool, TLAPS

\* Every hook spools to a file of the data directory the model knows.
LEMMA SpoolOfType == \A e \in Events : SpoolOf(e) \in Files
BY DEF SpoolOf, Files, Events

\* The initial state is well typed.
LEMMA InitType == Init => TypeOK
BY DEF Init, TypeOK, Files, Names

\* Every step keeps the variables in their types (all of CaptureSpool's actions).
LEMMA NextType == TypeOK /\ [Next]_vars => TypeOK'
<1> SUFFICES ASSUME TypeOK, [Next]_vars PROVE TypeOK'
  OBVIOUS
<1> USE SpoolOfType DEF TypeOK, Names
<1> USE DEF hookVars, diskVars, drainVars, storeVars, counters
<1>1. ASSUME NEW e \in Events, Capture(e) PROVE TypeOK'
  BY <1>1 DEF Capture
<1>2. ASSUME NEW e \in Events, GiveUp(e) PROVE TypeOK'
  BY <1>2 DEF GiveUp
<1>3. ASSUME NEW e \in Events, OpenSpool(e) PROVE TypeOK'
  BY <1>3 DEF OpenSpool
<1>4. ASSUME NEW e \in Events, AppendLine(e) PROVE TypeOK'
  BY <1>4 DEF AppendLine
<1>5. ASSUME NEW e \in Events, HandleStored(e) PROVE TypeOK'
  BY <1>5 DEF HandleStored, AppendEvent, Answer
<1>6. ASSUME NEW e \in Events, HandleRejected(e) PROVE TypeOK'
  BY <1>6 DEF HandleRejected, Answer
<1>7. ASSUME NEW e \in Events, HandleRefused(e) PROVE TypeOK'
  BY <1>7 DEF HandleRefused, Answer
<1>8. CASE Start
  BY <1>8 DEF Start, Collected
<1>9. CASE DrainTick
  BY <1>9 DEF DrainTick, Collected
<1>10. ASSUME NEW f \in Files, PickLeftover(f) PROVE TypeOK'
  BY <1>10 DEF PickLeftover
<1>11. ASSUME NEW f \in Files, PickSource(f) PROVE TypeOK'
  BY <1>11 DEF PickSource
<1>12. CASE ReadLines
  BY <1>12 DEF ReadLines
<1>13. CASE ReadThrows
  BY <1>13 DEF ReadThrows
<1>14. ASSUME NEW e \in Events, LineDropped(e) PROVE TypeOK'
  BY <1>14 DEF LineDropped
<1>15. ASSUME NEW e \in Events, LineStored(e) PROVE TypeOK'
  BY <1>15 DEF LineStored, AppendEvent
<1>16. ASSUME NEW e \in Events, LineFailed(e) PROVE TypeOK'
  BY <1>16 DEF LineFailed
<1>17. CASE TruncateSource
  BY <1>17 DEF TruncateSource
<1>18. CASE RewriteFailed
  BY <1>18 DEF RewriteFailed
<1>19. CASE UnlinkDraining
  BY <1>19 DEF UnlinkDraining
<1>20. CASE DrainDone
  BY <1>20 DEF DrainDone
<1>21. CASE Crash
  BY <1>21 DEF Crash
<1>22. CASE UNCHANGED vars
  BY <1>22 DEF vars
<1>23. QED
  BY <1>1, <1>2, <1>3, <1>4, <1>5, <1>6, <1>7, <1>8, <1>9, <1>10, <1>11,
     <1>12, <1>13, <1>14, <1>15, <1>16, <1>17, <1>18, <1>19, <1>20, <1>21, <1>22
     DEF Next, HookStep, ServerStep, DrainStep

\* Type correctness: every reachable state satisfies TypeOK.
THEOREM TypeCorrect == Spec => []TypeOK
BY InitType, NextType, PTL DEF Spec

-----------------------------------------------------------------------------
\* The part of IInv that is inductive on top of TypeOK.
LineInv == SpooledSurvives /\ DrainInv

\* The initial state satisfies the inductive invariant.
LEMMA InitInv == Init => LineInv
BY SpoolOfType DEF Init, LineInv, SpooledSurvives, DrainInv, LeftoverCovers,
   NoFileNoLines, Descriptors, DrainAccounts, Files

\* A step of a hook or of the server that writes no line touches no file.
LEMMA HookInv ==
    ASSUME TypeOK, LineInv, NEW e \in Events,
           Capture(e) \/ GiveUp(e) \/ HandleStored(e) \/ HandleRejected(e) \/ HandleRefused(e)
    PROVE  LineInv'
<1> USE DEF TypeOK, LineInv, hookVars, diskVars, drainVars, storeVars, counters
<1>1. UNCHANGED <<fd, diskVars, drainVars, exposed>>
  BY DEF Capture, GiveUp, HandleStored, HandleRejected, HandleRefused
<1>2. \A d \in Events : Settled(d) => Settled(d)'
  BY DEF Settled, Capture, GiveUp, HandleStored, HandleRejected, HandleRefused, AppendEvent
<1>3. \A d \in Events : hook'[d] \in {"spooled", "appending"} => hook[d] = hook'[d]
  BY DEF Capture, GiveUp, HandleStored, HandleRejected, HandleRefused, Answer
<1>4. SpooledSurvives'
  BY <1>1, <1>2, <1>3 DEF SpooledSurvives, OnDisk
<1>5. (LeftoverCovers /\ NoFileNoLines /\ Descriptors)'
  BY <1>1, <1>3 DEF DrainInv, LeftoverCovers, NoFileNoLines, Descriptors
<1>6. DrainAccounts'
  BY <1>1, <1>2 DEF DrainInv, DrainAccounts
<1>7. QED
  BY <1>4, <1>5, <1>6 DEF DrainInv

\* Opening the spool may create an empty source file, nothing else.
LEMMA OpenInv == ASSUME TypeOK, LineInv, NEW e \in Events, OpenSpool(e) PROVE LineInv'
BY SpoolOfType DEF OpenSpool, TypeOK, LineInv, SpooledSurvives, DrainInv, LeftoverCovers,
   NoFileNoLines, Descriptors, DrainAccounts, OnDisk, Settled, drainVars, storeVars, Names

\* A written line is on disk, or exposed.
LEMMA AppendInv == ASSUME TypeOK, LineInv, NEW e \in Events, AppendLine(e) PROVE LineInv'
<1> USE SpoolOfType DEF AppendLine, TypeOK, LineInv, DrainInv, drainVars, storeVars
<1>1. SpooledSurvives'
  <2>1. e \in exposed' \/ OnDisk(e)'
    BY DEF OnDisk, Unprotected, Descriptors
  <2>2. \A d \in Events : OnDisk(d) => OnDisk(d)'
    BY DEF OnDisk
  <2>3. QED
    BY <2>1, <2>2 DEF SpooledSurvives, Settled
<1>2. (LeftoverCovers /\ NoFileNoLines /\ Descriptors)'
  BY DEF LeftoverCovers, NoFileNoLines, Descriptors, Unprotected
<1>3. DrainAccounts'
  BY DEF DrainAccounts, Settled, Unprotected, AlreadyRead
<1>4. QED
  BY <1>1, <1>2, <1>3

\* Starting a drain, ending one and dying move no line.
LEMMA ControlInv ==
    ASSUME TypeOK, LineInv, Start \/ DrainTick \/ DrainDone \/ Crash
    PROVE  LineInv'
<1> USE DEF LineInv, DrainInv, hookVars, diskVars, storeVars
<1>1. UNCHANGED <<hook, fd, diskVars, storeVars, exposed, file>>
  BY DEF Start, DrainTick, DrainDone, Crash
<1>2. stage' \in {"pick", "idle"}
  BY DEF Start, DrainTick, DrainDone, Crash
<1>3. QED
  BY <1>1, <1>2 DEF SpooledSurvives, OnDisk, Settled, LeftoverCovers, NoFileNoLines,
     Descriptors, DrainAccounts

\* Taking a file over keeps its lines: under the draining name, alone.
LEMMA PickInv ==
    ASSUME TypeOK, LineInv, NEW f \in Files, PickLeftover(f) \/ PickSource(f)
    PROVE  LineInv'
<1> USE SpoolOfType DEF TypeOK, LineInv, DrainInv, hookVars, diskVars, storeVars
<1>1. CASE PickLeftover(f)
  BY <1>1 DEF PickLeftover, SpooledSurvives, OnDisk, Settled, LeftoverCovers,
     NoFileNoLines, Descriptors, DrainAccounts
<1>2. CASE PickSource(f)
  <2> USE <1>2 DEF PickSource
  <2>1. draining[f] = {}
    BY DEF NoFileNoLines
  <2>2. SpooledSurvives'
    BY <2>1 DEF SpooledSurvives, OnDisk, Settled
  <2>3. (LeftoverCovers /\ NoFileNoLines)'
    BY DEF LeftoverCovers, NoFileNoLines
  <2>4. (Descriptors /\ DrainAccounts)'
    BY DEF Descriptors, DrainAccounts, Names
  <2>5. QED
    BY <2>2, <2>3, <2>4
<1>3. QED
  BY <1>1, <1>2

\* The lines of one read are what the drain accounts for.
LEMMA ReadInv == ASSUME TypeOK, LineInv, ReadLines PROVE LineInv'
BY DEF ReadLines, TypeOK, LineInv, SpooledSurvives, OnDisk, Settled, DrainInv,
   LeftoverCovers, NoFileNoLines, Descriptors, DrainAccounts, hookVars, diskVars, storeVars

\* A file that cannot be read is unlinked: its lines are exposed by then.
LEMMA ThrowInv == ASSUME TypeOK, LineInv, ReadThrows PROVE LineInv'
<1> USE SpoolOfType DEF ReadThrows, TypeOK, LineInv, DrainInv, storeVars
<1>1. SpooledSurvives'
  BY DEF SpooledSurvives, OnDisk, Settled
<1>2. (LeftoverCovers /\ NoFileNoLines)'
  BY DEF LeftoverCovers, NoFileNoLines
<1>3. (Descriptors /\ DrainAccounts)'
  BY DEF Descriptors, DrainAccounts
<1>4. QED
  BY <1>1, <1>2, <1>3

\* A processed line is settled or joins the failed ones.
LEMMA LineStepInv ==
    ASSUME TypeOK, LineInv, NEW e \in Events, LineDropped(e) \/ LineStored(e) \/ LineFailed(e)
    PROVE  LineInv'
<1> USE DEF TypeOK, LineInv, DrainInv, hookVars, diskVars, storeVars
<1>1. UNCHANGED <<hook, fd, diskVars, stage, file, exposed>>
  BY DEF LineDropped, LineStored, LineFailed
<1>2. \A d \in Events : Settled(d) => Settled(d)'
  BY DEF Settled, LineDropped, LineStored, LineFailed, AppendEvent
<1>3. Settled(e)' \/ e \in failed'
  BY DEF Settled, LineDropped, LineStored, LineFailed, AppendEvent
<1>4. /\ pending' = pending \ {e} /\ e \in pending /\ stage = "lines"
      /\ failed \subseteq failed' /\ failed' \subseteq failed \cup {e}
  BY DEF LineDropped, LineStored, LineFailed
<1>5. (SpooledSurvives /\ LeftoverCovers /\ NoFileNoLines /\ Descriptors)'
  BY <1>1, <1>2 DEF SpooledSurvives, OnDisk, LeftoverCovers, NoFileNoLines, Descriptors
<1>6. DrainAccounts'
  BY <1>1, <1>2, <1>3, <1>4 DEF DrainAccounts
<1>7. QED
  BY <1>5, <1>6

\* Truncating the source loses nothing protected: the draining file has it.
LEMMA TruncateInv == ASSUME TypeOK, LineInv, TruncateSource PROVE LineInv'
<1> USE SpoolOfType DEF TruncateSource, TypeOK, LineInv, DrainInv, hookVars, storeVars
<1>1. SpooledSurvives'
  BY DEF SpooledSurvives, OnDisk, Settled, LeftoverCovers, DrainAccounts
<1>2. (LeftoverCovers /\ NoFileNoLines /\ Descriptors)'
  BY DEF LeftoverCovers, NoFileNoLines, Descriptors, Names
<1>3. DrainAccounts'
  BY DEF DrainAccounts, Settled, Names
<1>4. QED
  BY <1>1, <1>2, <1>3

\* Writing the failed lines back keeps the source within the draining file.
LEMMA RewriteInv == ASSUME TypeOK, LineInv, RewriteFailed PROVE LineInv'
<1> USE SpoolOfType DEF RewriteFailed, TypeOK, LineInv, DrainInv, hookVars, storeVars
<1>1. SpooledSurvives'
  BY DEF SpooledSurvives, OnDisk, Settled, LeftoverCovers, DrainAccounts
<1>2. (LeftoverCovers /\ NoFileNoLines /\ Descriptors)'
  BY DEF LeftoverCovers, NoFileNoLines, Descriptors, DrainAccounts
<1>3. DrainAccounts'
  BY DEF DrainAccounts, Settled
<1>4. QED
  BY <1>1, <1>2, <1>3

\* What is unlinked is exposed, settled, or in the source again.
LEMMA UnlinkInv == ASSUME TypeOK, LineInv, UnlinkDraining PROVE LineInv'
<1> USE SpoolOfType DEF UnlinkDraining, TypeOK, LineInv, DrainInv, storeVars
<1>1. \A e \in draining[file] : e \in exposed \/ Settled(e) \/ e \in source[file]
  BY DEF DrainAccounts
<1>2. SpooledSurvives'
  BY <1>1 DEF SpooledSurvives, OnDisk, Settled
<1>3. (LeftoverCovers /\ NoFileNoLines)'
  BY DEF LeftoverCovers, NoFileNoLines
<1>4. (Descriptors /\ DrainAccounts)'
  BY DEF Descriptors, DrainAccounts
<1>5. QED
  BY <1>2, <1>3, <1>4

\* A stuttering step changes no line.
LEMMA StutterInv == ASSUME LineInv, UNCHANGED vars PROVE LineInv'
BY DEF LineInv, SpooledSurvives, OnDisk, Settled, DrainInv, LeftoverCovers, NoFileNoLines,
   Descriptors, DrainAccounts, vars, hookVars, diskVars, drainVars, storeVars

\* The invariant of the spool, for every value of the constants.
THEOREM SpoolSafety == Spec => []IInv
<1>1. TypeOK /\ LineInv /\ [Next]_vars => LineInv'
  BY HookInv, OpenInv, AppendInv, ControlInv, PickInv, ReadInv, ThrowInv, LineStepInv,
     TruncateInv, RewriteInv, UnlinkInv, StutterInv
     DEF Next, HookStep, ServerStep, DrainStep
<1>2. TypeOK /\ LineInv => IInv
  BY DEF LineInv, IInv
<1>3. QED
  BY InitInv, TypeCorrect, <1>1, <1>2, PTL DEF Spec

\* No protected line is ever lost (drainSpool and the hooks' append).
THEOREM NeverLost == Spec => []SpooledSurvives
<1>1. IInv => SpooledSurvives
  BY DEF IInv
<1>2. QED
  BY SpoolSafety, <1>1, PTL

\* The accounts of a drain, whole or interrupted, hold in every state (drainSpool).
THEOREM DrainAccountsKept == Spec => []DrainInv
<1>1. IInv => DrainInv
  BY DEF IInv
<1>2. QED
  BY SpoolSafety, <1>1, PTL

-----------------------------------------------------------------------------
\* An event_id never has two rows, whatever is delivered twice (appendEvent).
THEOREM NoDuplicates == Spec => []StoredOnce
<1>1. Init => StoredOnce
  BY DEF Init, StoredOnce
<1>2. TypeOK /\ StoredOnce /\ [Next]_vars => StoredOnce'
  <2> SUFFICES ASSUME TypeOK, StoredOnce, [Next]_vars PROVE StoredOnce'
    OBVIOUS
  <2>1. \/ rows' = rows
        \/ \E e \in Events : AppendEvent(e)
    BY DEF Next, HookStep, ServerStep, DrainStep, Capture, GiveUp, OpenSpool, AppendLine,
       HandleStored, HandleRejected, HandleRefused, Start, DrainTick, PickLeftover, PickSource,
       ReadLines, ReadThrows, LineDropped, LineStored, LineFailed, TruncateSource,
       RewriteFailed, UnlinkDraining, DrainDone, Crash, vars, storeVars
  <2>2. QED
    BY <2>1 DEF StoredOnce, AppendEvent, TypeOK
<1>3. QED
  BY <1>1, <1>2, TypeCorrect, PTL DEF Spec

\* Neither path stores what the pipeline refuses (ingest route and drainSpool).
THEOREM RefusedStaysOut == Spec => []UnwantedNeverStored
<1>1. Init => UnwantedNeverStored
  BY DEF Init, UnwantedNeverStored
<1>2. TypeOK /\ UnwantedNeverStored /\ [Next]_vars => UnwantedNeverStored'
  <2> SUFFICES ASSUME TypeOK, UnwantedNeverStored, [Next]_vars PROVE UnwantedNeverStored'
    OBVIOUS
  <2>1. \/ rows' = rows
        \/ \E e \in Events \ Unwanted : AppendEvent(e)
    BY DEF Next, HookStep, ServerStep, DrainStep, Capture, GiveUp, OpenSpool, AppendLine,
       HandleStored, HandleRejected, HandleRefused, Start, DrainTick, PickLeftover, PickSource,
       ReadLines, ReadThrows, LineDropped, LineStored, LineFailed, TruncateSource,
       RewriteFailed, UnlinkDraining, DrainDone, Crash, vars, storeVars
  <2>2. QED
    BY <2>1 DEF UnwantedNeverStored, AppendEvent, TypeOK
<1>3. QED
  BY <1>1, <1>2, TypeCorrect, PTL DEF Spec

\* An assistant command that ends without spooling has its event settled
\* (ingestAssistantEvent looks at the status of the answer).
THEOREM AssistantAcksMean == Spec => []AssistantAckSettled
<1>1. Init => AssistantAckSettled
  BY DEF Init, AssistantAckSettled, Events
<1>2. TypeOK /\ AssistantAckSettled /\ [Next]_vars => AssistantAckSettled'
  <2> SUFFICES ASSUME TypeOK, AssistantAckSettled, [Next]_vars,
                      NEW e \in AssistantHooks, hook'[e] = "acked"
               PROVE  Settled(e)'
    BY DEF AssistantAckSettled
  <2>1. e \in Events
    BY DEF Events
  <2>2. Settled(e) => Settled(e)'
    <3>1. /\ dropped \subseteq dropped'
          /\ rows' = rows \/ \E x \in Events : AppendEvent(x)
      BY DEF Next, HookStep, ServerStep, DrainStep, Capture, GiveUp, OpenSpool, AppendLine,
         HandleStored, HandleRejected, HandleRefused, Start, DrainTick, PickLeftover, PickSource,
         ReadLines, ReadThrows, LineDropped, LineStored, LineFailed, TruncateSource,
         RewriteFailed, UnlinkDraining, DrainDone, Crash, vars, storeVars
    <3>2. QED
      BY <2>1, <3>1 DEF Settled, AppendEvent, TypeOK
  <2>3. hook'[e] = "acked" => hook[e] = "acked" \/ (HandleStored(e) /\ hook[e] = "posting")
    <3>2. ASSUME NEW x \in Events, HookStep(x) PROVE hook[e] = "acked"
      BY <2>1, <3>2 DEF HookStep, Capture, GiveUp, OpenSpool, AppendLine, TypeOK
    <3>3. ASSUME NEW x \in Events, HandleStored(x)
          PROVE  hook[e] = "acked" \/ (HandleStored(e) /\ hook[e] = "posting")
      BY <2>1, <3>3 DEF HandleStored, Answer, TypeOK
    <3>4. ASSUME NEW x \in Events, HandleRejected(x) \/ HandleRefused(x) PROVE hook[e] = "acked"
      BY <2>1, <3>4 DEF HandleRejected, HandleRefused, Answer, TypeOK
    <3>5. CASE Start \/ DrainTick \/ DrainStep \/ Crash \/ UNCHANGED vars
      BY <3>5 DEF DrainStep, Start, DrainTick, PickLeftover, PickSource, ReadLines, ReadThrows,
         LineDropped, LineStored, LineFailed, TruncateSource, RewriteFailed, UnlinkDraining,
         DrainDone, Crash, vars, hookVars
    <3>6. QED
      BY <3>2, <3>3, <3>4, <3>5 DEF Next, ServerStep
  <2>4. HandleStored(e) => Settled(e)'
    BY <2>1 DEF HandleStored, AppendEvent, Settled, TypeOK
  <2>5. QED
    BY <2>2, <2>3, <2>4 DEF AssistantAckSettled
<1>3. QED
  BY <1>1, <1>2, TypeCorrect, PTL DEF Spec
=============================================================================
