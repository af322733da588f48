--------------------------- MODULE MCIntelService ---------------------------
(* Small instances of IntelService for TLC.  A tick stands for half a minute
   or more: the window is longer than the open time and no longer than the
   visibility timeout, which equals the rescan interval, as in the code.     *)
EXTENDS IntelService
=============================================================================
