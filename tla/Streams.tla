------------------------------ MODULE Streams ------------------------------
(***************************************************************************)
(* The event bus and one streamed answer.  They share nothing but the SSE  *)
(* writer, so a behaviour is one of the two: the other half keeps its      *)
(* initial state.                                                          *)
(***************************************************************************)
EXTENDS EventBus, SseWire

VARIABLE half
streamVars == <<half, busVars, wireVars>>
WireAsLeft == wireVars = <<"tui", <<Finish, DONE>>, 0, 0, "none", <<>>, "request", <<>>, FALSE,
                           FALSE, "pending", <<>>>>
StreamInit ==
    /\ BusInit /\ WireInit /\ half \in {"bus", "wire"}
    /\ half = "bus" => WireAsLeft
StreamNext ==
    \/ half = "bus" /\ BusNext /\ UNCHANGED <<half, wireVars>>
    \/ half = "wire" /\ WireNext /\ UNCHANGED <<half, busVars>>
StreamSpec == StreamInit /\ [][StreamNext]_streamVars
              /\ WF_streamVars(half = "wire" /\ Answered /\ UNCHANGED <<half, busVars>>)
              /\ WF_streamVars(half = "wire" /\ ServerSteps /\ UNCHANGED <<half, busVars>>)
              /\ WF_streamVars(half = "wire" /\ ClientSteps /\ UNCHANGED <<half, busVars>>)

\* Type invariant of the bus and the wire.
StreamsTypeOK == BusTypeOK /\ WireTypeOK
\* A streamed answer that was asked for settles (SseWire!EventuallySettled).
AnswersSettle == half = "bus" \/ EventuallySettled
=============================================================================
