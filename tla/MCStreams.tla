----------------------------- MODULE MCStreams -----------------------------
EXTENDS Streams
CONSTANTS c1, intel, mirror
MCTypesOf(s) == IF s = intel THEN {"event:stored"} ELSE {"git", "fact:extracted"}
=============================================================================
