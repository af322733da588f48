----------------------------- MODULE MCHttpGate -----------------------------
(* Five requests; /chat has a window of 2 hits in 2 ticks and one of 3 hits in
   4 ticks, /events one window of 2 hits in 2 ticks, /query none.             *)
EXTENDS HttpGate
CONSTANTS chat, events, query
MCRequests == 1..5
MCKeys == {chat, events, query}
MCWindowsOf(k) == IF k = chat THEN 2 ELSE IF k = events THEN 1 ELSE 0
MCLimit(k, w) == IF w = 2 THEN 3 ELSE 2
MCLength(k, w) == IF w = 2 THEN 4 ELSE 2
=============================================================================
